---- MODULE Spec2Model ----
(***************************************************************************)
(* A model of the All-Inclusive accessibility scanner: the content         *)
(* script's scanPage runner, the rule registry and the rules' check        *)
(* functions, over a small document tree.                                  *)
(*                                                                         *)
(* A document is a sequence of element records in document order; the      *)
(* element at position n has index n, its parent is the index of an        *)
(* earlier element or 0 (the body).  Attribute values are strings, an      *)
(* absent attribute is NoAttr.  Markers (the data-violation attribute) and *)
(* locators are the strings the code builds.                               *)
(***************************************************************************)
EXTENDS Integers, Sequences, FiniteSets, TLC

\* ---------------------------------------------------------------- bounds
MaxNodes == 2
MaxClock == 1
MaxScans == 2
MaxImgs == 2
MaxHeadings == 3
MaxIds == 3
MaxTexts == 2
MaxRadios == 2
MaxFields == 2
MaxLinks == 4
MaxClosures == 2
MaxDepth == 3

\* ---------------------------------------------------------------- elements
NoAttr == "<absent>"

Base ==
  [ tag |-> "div", parent |-> 0, role |-> NoAttr, ariaHidden |-> NoAttr,
    ariaLabel |-> NoAttr, ariaLabelledby |-> NoAttr, alt |-> NoAttr,
    title |-> NoAttr, id |-> NoAttr, tabindex |-> NoAttr, onclick |-> FALSE,
    href |-> NoAttr, type |-> NoAttr, for |-> NoAttr, className |-> "",
    text |-> "", display |-> "block", visibility |-> "visible", opacity |-> 100,
    width |-> 100, height |-> 20, cursor |-> "auto",
    color |-> "black", bg |-> "none", bgAlpha |-> 0, top |-> 0,
    fontSize |-> 16, fontWeight |-> 400,
    name |-> NoAttr, required |-> FALSE, ariaRequired |-> NoAttr ]

Nodes(doc) == 1..Len(doc)

\* the chain of ancestors of n, nearest first, the body (0) excluded
RECURSIVE Ancestors(_, _)
Ancestors(doc, n) ==
  IF doc[n].parent = 0 THEN <<>>
  ELSE <<doc[n].parent>> \o Ancestors(doc, doc[n].parent)

IsAncestor(doc, a, n) == \E i \in 1..Len(Ancestors(doc, n)) : Ancestors(doc, n)[i] = a

\* element.contains(other): other is the element or a descendant of it
Contains(doc, n, other) == other = n \/ (other # 0 /\ IsAncestor(doc, n, other))

Descendants(doc, n) == {m \in Nodes(doc) : IsAncestor(doc, n, m)}

\* querySelectorAll: the elements of a set of indexes, in document order
RECURSIVE InOrder(_)
InOrder(S) ==
  IF S = {} THEN <<>>
  ELSE LET m == CHOOSE x \in S : \A y \in S : x <= y
       IN  <<m>> \o InOrder(S \ {m})

\* the text of an element and of its descendants, in document order
RECURSIVE Concat(_, _)
Concat(doc, list) ==
  IF list = <<>> THEN ""
  ELSE doc[Head(list)].text \o Concat(doc, Tail(list))

TextContent(doc, n) == Concat(doc, InOrder({n} \cup Descendants(doc, n)))

\* String.prototype.trim on the texts the documents use
Trim(s) ==
  CASE s \in {"", " ", "  "} -> ""
    [] s = " here " -> "here"
    [] OTHER -> s

\* Number.prototype.toString / template interpolation of a number
Str(n) == ToString(n)

\* parseInt of a tabindex attribute value
ParseInt(s) ==
  CASE s = "0" -> 0 [] s = "1" -> 1 [] s = "2" -> 2 [] s = "3" -> 3
    [] s = "-1" -> -1 [] OTHER -> 0

\* ---------------------------------------------------------------- utils
isElementVisible(doc, n) ==
  /\ doc[n].display # "none"
  /\ doc[n].visibility # "hidden"
  /\ doc[n].opacity # 0
  /\ doc[n].width # 0
  /\ doc[n].height # 0

HidesFromAT(e) ==
  \/ e.ariaHidden = "true"
  \/ e.role \in {"presentation", "none"}

shouldCheckElement(doc, n) ==
  /\ doc[n].role \notin {"presentation", "none"}
  /\ doc[n].ariaHidden # "true"
  /\ \A i \in 1..Len(Ancestors(doc, n)) : ~HidesFromAT(doc[Ancestors(doc, n)[i]])
  /\ isElementVisible(doc, n)

Truthy(s) == s # NoAttr /\ s # ""

hasAccessibleName(doc, n) ==
  \/ Truthy(doc[n].ariaLabel)
  \/ Truthy(doc[n].ariaLabelledby)
  \/ \E i \in 1..Len(Ancestors(doc, n)) :
        Truthy(doc[Ancestors(doc, n)[i]].ariaLabelledby)

\* ---------------------------------------------------------------- violations
\* One write of the data-violation attribute together with the violation
\* pushed for it: node is the element written (0: none, the locator is a
\* plain selector), uid the attribute value, viol the Violation.
Locator(uid) == "[data-violation=\"" \o uid \o "\"]"

Uid(t, suffix) == "violation-" \o Str(t) \o "-" \o suffix

Emit(n, uid, id, ruleId, principle, severity, message, description) ==
  [ node |-> n, uid |-> uid,
    viol |-> [ id |-> id, ruleId |-> ruleId, principle |-> principle,
               severity |-> severity, message |-> message,
               description |-> description, element |-> Locator(uid),
               flagged |-> n ] ]

RECURSIVE Flatten(_)
Flatten(ss) == IF ss = <<>> THEN <<>> ELSE Head(ss) \o Flatten(Tail(ss))

\* the violations of a sequence of emissions, in order
Viols(ems) == [i \in 1..Len(ems) |-> ems[i].viol]

\* the data-violation attributes after the writes of ems, in order
RECURSIVE ApplyMarks(_, _)
ApplyMarks(marks, ems) ==
  IF ems = <<>> THEN marks
  ELSE ApplyMarks(
         IF Head(ems).node = 0 THEN marks
         ELSE [marks EXCEPT ![Head(ems).node] = Head(ems).uid],
         Tail(ems))

\* ---------------------------------------------------------------- perceivable
isLikelyDecorative(doc, n) ==
  \/ doc[n].role \in {"presentation", "none"}
  \/ doc[n].width <= 10
  \/ doc[n].height <= 10

\* the alt texts of the documents that match one of filenamePatterns
looksLikeFilename(s) == s \in {"photo.jpg", "IMG_1234"}

\* the alt texts of the documents whose lower-cased trimmed value is a generic term
isGenericAltText(s) == s \in {"image", "Photo", "icon"}

\* as missingAlt, with !alt for alt === null
missingAltFalsy(alt, title) == ~Truthy(alt) /\ ~Truthy(title)

\* alt === null && !title
missingAlt(alt, title) == alt = NoAttr /\ ~Truthy(title)

imageAltTextOne(doc, n, index, t) ==
  LET alt == doc[n].alt
      title == doc[n].title
      E(suffix, id, sev, msg) ==
        <<Emit(n, Uid(t, Str(index) \o suffix), id \o Str(index), "image-alt-text",
               "perceivable", sev, msg, "")>>
  IN  IF ~shouldCheckElement(doc, n) THEN <<>>
      ELSE IF hasAccessibleName(doc, n) THEN <<>>
      ELSE IF missingAlt(alt, title)
        THEN E("", "image-alt-", "critical", "Image missing alt attribute")
      ELSE IF alt = "" /\ ~isLikelyDecorative(doc, n)
        THEN E("-empty", "image-alt-empty-", "serious",
               "Non-decorative image has empty alt text")
      ELSE IF Truthy(alt) /\ Trim(alt) # "" /\ looksLikeFilename(alt)
        THEN E("-filename", "image-alt-filename-", "moderate",
               "Image alt text appears to be a filename")
      ELSE IF Truthy(alt) /\ Trim(alt) # "" /\ isGenericAltText(alt)
        THEN E("-generic", "image-alt-generic-", "moderate",
               "Image alt text is too generic")
      ELSE <<>>

imageAltText(doc, marks, t) ==
  LET images == InOrder({n \in Nodes(doc) : doc[n].tag = "img"})
  IN  Flatten([i \in 1..Len(images) |-> imageAltTextOne(doc, images[i], i - 1, t)])

\* a channel value c / 255 linearised (c / 12.92 or the 2.4 power), times
\* 10000, for the channel values the documents use
Linear(v) ==
  CASE v = 0 -> 0
    [] v = 119 -> 1845
    [] v = 140 -> 2623
    [] v = 160 -> 3515
    [] v = 200 -> 5776
    [] v = 221 -> 7231
    [] OTHER -> 10000

\* the computed colours of the documents, as the channels parseRgbColor
\* extracts from them; a string the pattern does not match (such as
\* "oklch(0.7 0.1 200)") gives null
NoColor == [r |-> -1, g |-> -1, b |-> -1]

parseRgbColor(c) ==
  CASE c = "black" -> [r |-> 0, g |-> 0, b |-> 0]
    [] c = "grey119" -> [r |-> 119, g |-> 119, b |-> 119]
    [] c = "grey140" -> [r |-> 140, g |-> 140, b |-> 140]
    [] c = "grey160" -> [r |-> 160, g |-> 160, b |-> 160]
    [] c = "grey200" -> [r |-> 200, g |-> 200, b |-> 200]
    [] c = "grey221" -> [r |-> 221, g |-> 221, b |-> 221]
    [] c = "white" -> [r |-> 255, g |-> 255, b |-> 255]
    [] OTHER -> NoColor

\* relative luminance, times 10000
getRelativeLuminance(rgb) ==
  (2126 * Linear(rgb.r) + 7152 * Linear(rgb.g) + 722 * Linear(rgb.b)) \div 10000

\* as getContrastRatio, without Math.max / Math.min: the first colour's
\* luminance over the second's
getContrastRatioUnordered(color1, color2) ==
  ((getRelativeLuminance(color1) + 500) * 1000)
    \div (getRelativeLuminance(color2) + 500)

\* the contrast ratio, in thousandths (rounded down)
getContrastRatio(color1, color2) ==
  LET l1 == getRelativeLuminance(color1)
      l2 == getRelativeLuminance(color2)
      lighter == IF l1 >= l2 THEN l1 ELSE l2
      darker == IF l1 >= l2 THEN l2 ELSE l1
  IN  ((lighter + 500) * 1000) \div (darker + 500)

\* getContrastRatio(c1, c2) < required, required given in tenths
ContrastBelow(c1, c2, required10) ==
  getContrastRatio(parseRgbColor(c1), parseRgbColor(c2)) < required10 * 100

\* document.elementFromPoint at the centre of n: n itself when top is 0
TopElement(doc, n) == IF doc[n].top = 0 THEN n ELSE doc[n].top

\* the loop runs while current is an element other than
\* document.body.parentElement; a document that lists no html element has a
\* body without a background
RECURSIVE WalkBackground(_, _)
WalkBackground(doc, chain) ==
  IF chain = <<>> \/ doc[Head(chain)].tag = "html" THEN "white"
  ELSE LET e == doc[Head(chain)]
       IN  IF e.bg # "none" /\ e.bgAlpha # 0 /\ ~(e.bgAlpha < 100 /\ e.bgAlpha < 10)
           THEN e.bg
           ELSE WalkBackground(doc, Tail(chain))

getEffectiveBackgroundColor(doc, n) ==
  LET te == TopElement(doc, n)
      overlay == /\ te \in Nodes(doc)
                 /\ te # n
                 /\ ~Contains(doc, n, te)
                 /\ doc[te].bg # "none"
                 /\ doc[te].bgAlpha # 0
                 /\ (doc[te].bgAlpha = 100 \/ doc[te].bgAlpha >= 50)
  IN  IF overlay THEN doc[te].bg
      ELSE WalkBackground(doc, <<n>> \o Ancestors(doc, n))

TextTags == {"p", "h1", "h2", "h3", "h4", "h5", "h6", "a", "li", "td", "th", "label", "button"}

\* as isLargeText, with fontSize > 18
isLargeTextAbove18(e) == e.fontSize > 18 \/ (e.fontSize >= 14 /\ e.fontWeight >= 700)

isLargeText(e) == e.fontSize >= 18 \/ (e.fontSize >= 14 /\ e.fontWeight >= 700)

requiredRatio(e) == IF isLargeText(e) THEN 30 ELSE 45

\* the element is flagged by color-contrast
colorContrastFlags(doc, n) ==
  /\ shouldCheckElement(doc, n)
  /\ Trim(TextContent(doc, n)) # ""
  /\ ~(doc[n].width < 10 \/ doc[n].height < 10)
  /\ parseRgbColor(doc[n].color) # NoColor
  /\ parseRgbColor(getEffectiveBackgroundColor(doc, n)) # NoColor
  /\ ContrastBelow(doc[n].color, getEffectiveBackgroundColor(doc, n), requiredRatio(doc[n]))

colorContrast(doc, marks, t) ==
  LET textElements == InOrder({n \in Nodes(doc) : doc[n].tag \in TextTags})
      \* violations.length when the element at position i is visited
      Before(i) == Cardinality({j \in 1..(i - 1) : colorContrastFlags(doc, textElements[j])})
      One(i) ==
        LET n == textElements[i]
        IN  IF colorContrastFlags(doc, n)
            THEN <<Emit(n, Uid(t, Str(Before(i))),
                        "contrast-" \o doc[n].tag \o "-" \o Str(Before(i)),
                        "color-contrast", "perceivable",
                        IF ContrastBelow(doc[n].color, getEffectiveBackgroundColor(doc, n),
                                         requiredRatio(doc[n]) - 10)
                        THEN "serious" ELSE "moderate",
                        "Insufficient color contrast", "")>>
            ELSE <<>>
  IN  Flatten([i \in 1..Len(textElements) |-> One(i)])

HeadingTags == {"h1", "h2", "h3", "h4", "h5", "h6"}

\* parseInt(tagName.charAt(1), 10)
HeadingLevel(tag) ==
  CASE tag = "h1" -> 1 [] tag = "h2" -> 2 [] tag = "h3" -> 3
    [] tag = "h4" -> 4 [] tag = "h5" -> 5 [] OTHER -> 6

\* as skipsLevel, with Math.abs around the difference
skipsLevelEitherWay(previous, current) ==
  current - previous > 1 \/ previous - current > 1

\* levelDifference > 1
skipsLevel(previous, current) == current - previous > 1

\* !textContent || textContent.length === 0
isEmptyHeading(doc, n) == Trim(TextContent(doc, n)) = ""

\* as inHeadingLevels, without the return that ends the empty-heading branch
inHeadingLevelsKeepEmpty(doc, n) == shouldCheckElement(doc, n)

\* the heading is pushed to headingLevels: it has text and is applicable
inHeadingLevels(doc, n) == ~isEmptyHeading(doc, n) /\ shouldCheckElement(doc, n)

\* as firstHeading, taking the first heading of the document
firstHeadingOfDocument(headings, kept) == headings[1]

\* headingLevels[0].element
firstHeading(headings, kept) == headings[kept[1]]

headingStructure(doc, marks, t) ==
  LET headings == InOrder({n \in Nodes(doc) : doc[n].tag \in HeadingTags})
      EmptyOne(i) ==
        IF isEmptyHeading(doc, headings[i])
        THEN <<Emit(headings[i], Uid(t, Str(i - 1) \o "-empty"),
                    "heading-empty-" \o Str(i - 1), "heading-structure", "perceivable",
                    "serious", "Empty heading found", "")>>
        ELSE <<>>
      \* headingLevels: the positions (in headings) kept for the sequence checks
      kept == InOrder({i \in 1..Len(headings) : inHeadingLevels(doc, headings[i])})
      level(k) == HeadingLevel(doc[headings[kept[k]]].tag)
      h1s == InOrder({k \in 1..Len(kept) : level(k) = 1})
      h1Count == Len(h1s)
      missing ==
        IF h1Count = 0 /\ Len(kept) > 0
        THEN <<Emit(firstHeading(headings, kept), Uid(t, "no-h1"), "heading-missing-h1",
                    "heading-structure", "perceivable", "serious",
                    "Page missing H1 heading", "")>>
        ELSE <<>>
      MultipleOne(j) ==
        LET index == kept[h1s[j]] - 1
        IN  <<Emit(headings[kept[h1s[j]]], Uid(t, Str(index) \o "-multiple-h1"),
                   "heading-multiple-h1-" \o Str(index), "heading-structure",
                   "perceivable", "moderate", "Multiple H1 headings found", "")>>
      multiple ==
        IF h1Count > 1 THEN Flatten([j \in 1..(h1Count - 1) |-> MultipleOne(j + 1)])
        ELSE <<>>
      SkippedOne(k) ==
        LET index == kept[k] - 1
        IN  IF skipsLevel(level(k - 1), level(k))
            THEN <<Emit(headings[kept[k]], Uid(t, Str(index) \o "-skipped"),
                        "heading-skipped-level-" \o Str(index), "heading-structure",
                        "perceivable", "moderate",
                        "Heading level skipped from H" \o Str(level(k - 1))
                          \o " to H" \o Str(level(k)), "")>>
            ELSE <<>>
      skipped ==
        IF Len(kept) > 1 THEN Flatten([k \in 1..(Len(kept) - 1) |-> SkippedOne(k + 1)])
        ELSE <<>>
  IN  Flatten([i \in 1..Len(headings) |-> EmptyOne(i)]) \o missing \o multiple \o skipped

\* ---------------------------------------------------------------- operable
NaturallyFocusable == {"a", "button", "input", "select", "textarea"}

\* tabindex === null || parseInt(tabindex) < 0
NoTabStop(e) == e.tabindex = NoAttr \/ ParseInt(e.tabindex) < 0

keyboardAccessiblePassA(doc, t) ==
  LET clickableElements == InOrder({n \in Nodes(doc) : doc[n].onclick})
      One(i) ==
        LET n == clickableElements[i]
        IN  IF /\ shouldCheckElement(doc, n)
               /\ doc[n].tag \notin NaturallyFocusable
               /\ NoTabStop(doc[n])
            THEN <<Emit(n, Uid(t, Str(i - 1)), "keyboard-" \o Str(i - 1),
                        "keyboard-accessible", "operable", "serious",
                        "Interactive element not keyboard accessible", "click handlers")>>
            ELSE <<>>
  IN  Flatten([i \in 1..Len(clickableElements) |-> One(i)])

\* as hasDataViolation, never finding the attribute
hasDataViolationNever(marks, n) == FALSE

\* element.hasAttribute('data-violation')
hasDataViolation(marks, n) == marks[n] # NoAttr

keyboardAccessiblePassB(doc, marks, t) ==
  LET cursorPointerElements == InOrder({n \in Nodes(doc) : doc[n].tag \in {"div", "span"}})
      One(i) ==
        LET n == cursorPointerElements[i]
        IN  IF /\ shouldCheckElement(doc, n)
               /\ doc[n].cursor = "pointer"
               /\ NoTabStop(doc[n])
               /\ ~hasDataViolation(marks, n)
            THEN <<Emit(n, Uid(t, "react-" \o Str(i - 1)), "keyboard-react-" \o Str(i - 1),
                        "keyboard-accessible", "operable", "serious",
                        "Interactive element not keyboard accessible", "cursor: pointer")>>
            ELSE <<>>
  IN  Flatten([i \in 1..Len(cursorPointerElements) |-> One(i)])

keyboardAccessible(doc, marks, t) ==
  LET a == keyboardAccessiblePassA(doc, t)
  IN  a \o keyboardAccessiblePassB(doc, ApplyMarks(marks, a), t)

\* String.prototype.toLowerCase on the texts the documents use
Lower(s) ==
  CASE s = "Click Here" -> "click here"
    [] s = "Read more" -> "read more"
    [] s = "Learn more" -> "learn more"
    [] s = "MORE" -> "more"
    [] s = "Home" -> "home"
    [] OTHER -> s

\* as vagueTexts, the one-word entries left out
vagueTextsPhrases == {"click here", "read more"}

vagueTexts == {"click here", "read more", "more", "here", "link", "this"}

linkPurpose(doc, marks, t) ==
  LET links == InOrder({n \in Nodes(doc) : doc[n].tag = "a" /\ doc[n].href # NoAttr})
      One(i) ==
        LET n == links[i]
            text == Lower(Trim(TextContent(doc, n)))
        IN  IF ~shouldCheckElement(doc, n) THEN <<>>
            ELSE IF text = "" /\ hasAccessibleName(doc, n) THEN <<>>
            ELSE IF text = "" /\ ~hasAccessibleName(doc, n)
              THEN <<Emit(n, Uid(t, Str(i - 1) \o "-empty"), "link-empty-" \o Str(i - 1),
                          "link-purpose", "operable", "serious", "Link has no text", "")>>
            ELSE IF text \in vagueTexts /\ ~hasAccessibleName(doc, n)
              THEN <<Emit(n, Uid(t, Str(i - 1) \o "-vague"), "link-vague-" \o Str(i - 1),
                          "link-purpose", "operable", "moderate", "Link has vague text", text)>>
            ELSE <<>>
  IN  Flatten([i \in 1..Len(links) |-> One(i)])

\* s.toLowerCase().includes('skip'), on the texts the documents use
IncludesSkip(s) == s \in {"skip", "Skip to main content", "Skip navigation"}

\* textContent.toLowerCase().includes('skip'): some text of the subtree has it
TextIncludesSkip(doc, n) ==
  \E m \in {n} \cup Descendants(doc, n) : IncludesSkip(doc[m].text)

\* href^="#"
HashHref(h) == h \in {"#", "#main", "#content"}

\* :first-of-type
FirstOfType(doc, n) ==
  ~\E m \in 1..(n - 1) : doc[m].parent = doc[n].parent /\ doc[m].tag = doc[n].tag

First(S) == CHOOSE x \in S : \A y \in S : x <= y

bypassBlocks(doc, marks, t) ==
  LET navs == {n \in Nodes(doc) : doc[n].tag = "nav"}
      hasNavigation ==
        /\ navs # {}
        /\ Cardinality({m \in Descendants(doc, First(navs)) : doc[m].tag = "a"}) > 3
      headers == {n \in Nodes(doc) : doc[n].tag = "header"}
      hasHeaderNav ==
        /\ headers # {}
        /\ Cardinality({m \in Descendants(doc, First(headers)) :
                          doc[m].tag \in {"nav", "a"}}) > 3
      skipLinks == {n \in Nodes(doc) :
                      doc[n].tag = "a" /\ HashHref(doc[n].href) /\ FirstOfType(doc, n)}
      hasSkipLink ==
        /\ skipLinks # {}
        /\ \/ TextIncludesSkip(doc, First(skipLinks))
           \/ IncludesSkip(doc[First(skipLinks)].ariaLabel)
  IN  IF ~hasNavigation /\ ~hasHeaderNav THEN <<>>
      ELSE IF hasSkipLink THEN <<>>
      ELSE << [ node |-> 0, uid |-> NoAttr,
                viol |-> [ id |-> "skip-link-missing", ruleId |-> "bypass-blocks",
                           principle |-> "operable", severity |-> "moderate",
                           message |-> "Page is missing skip navigation link",
                           description |-> "", element |-> "body", flagged |-> 0 ] ] >>

\* as isHidden, without the opacity test
isHiddenBoxOnly(e) == e.display = "none" \/ e.visibility = "hidden"

\* display === 'none' || visibility === 'hidden' || parseFloat(opacity) === 0
isHidden(e) == e.display = "none" \/ e.visibility = "hidden" \/ e.opacity = 0

focusOrder(doc, marks, t) ==
  LET elementsWithTabindex == InOrder({n \in Nodes(doc) : doc[n].tabindex # NoAttr})
      One(i) ==
        LET n == elementsWithTabindex[i]
            tabindexNum == ParseInt(doc[n].tabindex)
            isSkipLink == TextIncludesSkip(doc, n) \/ IncludesSkip(doc[n].ariaLabel)
        IN  IF tabindexNum >= 0 /\ isHidden(doc[n])
              THEN <<Emit(n, Uid(t, Str(i - 1) \o "-hidden"),
                          "focus-hidden-focusable-" \o Str(i - 1), "focus-order",
                          "operable", "moderate", "Focusable element is hidden", "")>>
            ELSE IF ~shouldCheckElement(doc, n) THEN <<>>
            ELSE IF tabindexNum > 0
              THEN <<Emit(n, Uid(t, Str(i - 1) \o "-positive"),
                          "focus-positive-tabindex-" \o Str(i - 1), "focus-order",
                          "operable", "serious",
                          "Element has positive tabindex=\"" \o Str(tabindexNum) \o "\"", "")>>
            ELSE IF tabindexNum = -1 /\ doc[n].tag \in NaturallyFocusable /\ ~isSkipLink
              THEN <<Emit(n, Uid(t, Str(i - 1) \o "-negative"),
                          "focus-negative-native-" \o Str(i - 1), "focus-order",
                          "operable", "minor",
                          "Native interactive element removed from tab order", "")>>
            ELSE <<>>
  IN  Flatten([i \in 1..Len(elementsWithTabindex) |-> One(i)])

\* ---------------------------------------------------------------- robust
\* elements.map(...).join(', ')
RECURSIVE elementLocations(_, _, _)
elementLocations(doc, elements, idx) ==
  IF idx > Len(elements) THEN ""
  ELSE LET el == doc[elements[idx]]
           classes == IF el.className # "" THEN "." \o el.className ELSE ""
       IN  (IF idx > 1 THEN ", " ELSE "")
             \o Str(idx) \o ". <" \o el.tag \o classes \o ">"
             \o elementLocations(doc, elements, idx + 1)

\* as isDuplicated, with length > 0
isDuplicatedFromOne(elements) == Len(elements) > 0

\* elements.length > 1
isDuplicated(elements) == Len(elements) > 1

\* the elements entered into idsMap
HasCheckedId(doc, n) == Truthy(doc[n].id) /\ shouldCheckElement(doc, n)

\* idsMap.get(id)
idsMap(doc, id) == InOrder({n \in Nodes(doc) : HasCheckedId(doc, n) /\ doc[n].id = id})

validHTML(doc, marks, t) ==
  LET \* the keys of idsMap in insertion order: each id at its first element
      firsts == InOrder({n \in Nodes(doc) :
                           /\ HasCheckedId(doc, n)
                           /\ idsMap(doc, doc[n].id)[1] = n})
      One(i) ==
        LET id == doc[firsts[i]].id
            elements == idsMap(doc, id)
        IN  IF isDuplicated(elements)
            THEN <<Emit(elements[1], Uid(t, id), "duplicate-id-" \o id, "valid-html",
                        "robust", "serious", "Duplicate ID: \"" \o id \o "\"",
                        "The ID \"" \o id \o "\" is used " \o Str(Len(elements))
                          \o " times on the page. IDs must be unique. Found in: "
                          \o elementLocations(doc, elements, 1))>>
            ELSE <<>>
  IN  Flatten([i \in 1..Len(firsts) |-> One(i)])

\* as hasLabel, without the closest('label') test
hasLabelForOnly(doc, n) ==
  /\ Truthy(doc[n].id)
  /\ \E m \in Nodes(doc) : doc[m].tag = "label" /\ doc[m].for = doc[n].id

\* the element has a label: label[for=id] in the document, or closest('label')
hasLabel(doc, n) ==
  \/ /\ Truthy(doc[n].id)
     /\ \E m \in Nodes(doc) : doc[m].tag = "label" /\ doc[m].for = doc[n].id
  \/ \E i \in 1..Len(Ancestors(doc, n)) : doc[Ancestors(doc, n)[i]].tag = "label"

ariaUsage(doc, marks, t) ==
  LET buttons == InOrder({n \in Nodes(doc) : doc[n].tag = "button" \/ doc[n].role = "button"})
      hasInnerAccessibleContent(n) ==
        \E m \in Descendants(doc, n) :
          \/ doc[m].tag = "img" /\ doc[m].alt # NoAttr
          \/ doc[m].ariaLabel # NoAttr
          \/ doc[m].ariaLabelledby # NoAttr
      Button(i) ==
        LET n == buttons[i]
        IN  IF ~shouldCheckElement(doc, n) THEN <<>>
            ELSE IF \/ Trim(TextContent(doc, n)) # ""
                    \/ hasAccessibleName(doc, n)
                    \/ hasInnerAccessibleContent(n)
              THEN <<>>
            ELSE <<Emit(n, Uid(t, "button-" \o Str(i - 1)), "button-no-name-" \o Str(i - 1),
                        "aria-usage", "robust", "critical",
                        "Button has no accessible name", "")>>
      inputs == InOrder({n \in Nodes(doc) :
                  \/ /\ doc[n].tag = "input"
                     /\ doc[n].type \notin {"hidden", "submit", "button"}
                  \/ doc[n].tag \in {"textarea", "select"}})
      Input(i) ==
        LET n == inputs[i]
        IN  IF ~shouldCheckElement(doc, n) THEN <<>>
            ELSE IF ~hasLabel(doc, n) /\ hasAccessibleName(doc, n) THEN <<>>
            ELSE IF ~hasLabel(doc, n) /\ ~hasAccessibleName(doc, n)
              THEN <<Emit(n, Uid(t, "input-" \o Str(i - 1)), "input-no-label-" \o Str(i - 1),
                          "aria-usage", "robust", "critical",
                          "Form input has no label", "")>>
            ELSE <<>>
  IN  Flatten([i \in 1..Len(buttons) |-> Button(i)])
        \o Flatten([i \in 1..Len(inputs) |-> Input(i)])

\* ---------------------------------------------------------------- understandable
\* element.closest(tag) of an element that does not itself match: the nearest
\* ancestor with the tag, 0 when there is none
Closest(doc, n, tag) ==
  LET anc == Ancestors(doc, n)
      hits == {i \in 1..Len(anc) : doc[anc[i]].tag = tag}
  IN  IF hits = {} THEN 0 ELSE anc[First(hits)]

\* the applicable inputs of a type that carry a name
IsGrouped(doc, n, type) ==
  /\ doc[n].tag = "input"
  /\ doc[n].type = type
  /\ shouldCheckElement(doc, n)
  /\ Truthy(doc[n].name)

\* radioGroups.get(name) / checkboxGroups.get(name)
groupInputs(doc, type, name) ==
  InOrder({n \in Nodes(doc) : IsGrouped(doc, n, type) /\ doc[n].name = name})

\* fieldsets.every(fs => fs === firstFieldset), firstFieldset not null
inSameFieldset(doc, inputs) ==
  /\ Closest(doc, inputs[1], "fieldset") # 0
  /\ \A i \in 1..Len(inputs) :
       Closest(doc, inputs[i], "fieldset") = Closest(doc, inputs[1], "fieldset")

\* firstFieldset.querySelector('legend') exists and has text
hasLegend(doc, fieldset) ==
  LET legends == {m \in Descendants(doc, fieldset) : doc[m].tag = "legend"}
  IN  legends # {} /\ Trim(TextContent(doc, First(legends))) # ""

\* one turn of radioGroups.forEach / checkboxGroups.forEach
fieldsetGroup(doc, type, name, t) ==
  LET inputs == groupInputs(doc, type, name)
      radio == type = "radio"
      severity == IF radio THEN "serious" ELSE "moderate"
  IN  IF Len(inputs) < (IF radio THEN 2 ELSE 3) THEN <<>>
      ELSE IF ~inSameFieldset(doc, inputs)
        THEN <<Emit(inputs[1], Uid(t, type \o "-" \o name),
                    "fieldset-" \o type \o "-" \o name, "fieldset-legend",
                    "understandable", severity,
                    (IF radio THEN "Radio button group \"" ELSE "Checkbox group \"")
                      \o name \o "\" not in fieldset",
                    Str(Len(inputs)))>>
      ELSE IF ~hasLegend(doc, Closest(doc, inputs[1], "fieldset"))
        THEN <<Emit(inputs[1],
                    Uid(t, (IF radio THEN "legend-" ELSE "legend-checkbox-") \o name),
                    (IF radio THEN "fieldset-legend-" ELSE "fieldset-legend-checkbox-")
                      \o name,
                    "fieldset-legend", "understandable", severity,
                    (IF radio THEN "Fieldset missing legend for group \""
                     ELSE "Fieldset missing legend for checkbox group \"")
                      \o name \o "\"",
                    "")>>
      ELSE <<>>

fieldsetLegend(doc, marks, t) ==
  LET \* the keys of a group map in insertion order: each name at its first input
      firsts(type) ==
        InOrder({n \in Nodes(doc) :
                   /\ IsGrouped(doc, n, type)
                   /\ groupInputs(doc, type, doc[n].name)[1] = n})
      Groups(type) ==
        Flatten([i \in 1..Len(firsts(type)) |->
                   fieldsetGroup(doc, type, doc[firsts(type)[i]].name, t)])
  IN  Groups("radio") \o Groups("checkbox")

\* the inputs form-labels and required-fields check (their querySelectorAll)
formInputs(doc) ==
  {n \in Nodes(doc) :
     \/ /\ doc[n].tag = "input"
        /\ doc[n].type \notin {"hidden", "submit", "button", "reset", "image"}
     \/ doc[n].tag \in {"textarea", "select"}}

formLabels(doc, marks, t) ==
  LET inputs == InOrder(formInputs(doc))
      One(i) ==
        LET n == inputs[i]
        IN  IF ~shouldCheckElement(doc, n) THEN <<>>
            ELSE IF ~hasLabel(doc, n) /\ hasAccessibleName(doc, n)
              THEN <<Emit(n, Uid(t, Str(i - 1) \o "-aria-only"),
                          "form-label-aria-only-" \o Str(i - 1), "form-labels",
                          "understandable", "moderate",
                          "Form input has aria-label but no visible label", "")>>
            ELSE IF ~hasLabel(doc, n)
              THEN <<Emit(n, Uid(t, Str(i - 1) \o "-no-label"),
                          "form-label-" \o Str(i - 1), "form-labels",
                          "understandable", "critical",
                          "Form input missing label", "")>>
            ELSE <<>>
  IN  Flatten([i \in 1..Len(inputs) |-> One(i)])

\* /\*|required|mandatory|obligatory/i.test(s), on the label texts the documents use
hasVisualRequired(s) ==
  s \in {"Email Address *", "Name (required)", "MANDATORY", "Phone - obligatory"}

\* labelText of required-fields: the label[for=id] of an input with an id, the
\* enclosing label of an input without one
requiredLabelText(doc, n) ==
  LET labels == {m \in Nodes(doc) : doc[m].tag = "label" /\ doc[m].for = doc[n].id}
      parentLabel == Closest(doc, n, "label")
  IN  IF Truthy(doc[n].id)
      THEN IF labels = {} THEN "" ELSE Trim(TextContent(doc, First(labels)))
      ELSE IF parentLabel = 0 THEN "" ELSE Trim(TextContent(doc, parentLabel))

requiredFields(doc, marks, t) ==
  LET inputs == InOrder(formInputs(doc))
      One(i) ==
        LET n == inputs[i]
            labelText == requiredLabelText(doc, n)
        IN  IF ~shouldCheckElement(doc, n) THEN <<>>
            ELSE IF /\ hasVisualRequired(labelText)
                    /\ ~doc[n].required
                    /\ doc[n].ariaRequired # "true"
              THEN <<Emit(n, Uid(t, Str(i - 1) \o "-required"),
                          "required-field-" \o Str(i - 1), "required-fields",
                          "understandable", "serious",
                          "Required field not programmatically indicated", labelText)>>
            ELSE <<>>
  IN  Flatten([i \in 1..Len(inputs) |-> One(i)])

\* ---------------------------------------------------------------- runner
\* allRules = [...perceivableRules, ...operableRules, ...robustRules]
allRules ==
  << "image-alt-text", "color-contrast", "heading-structure",
     "keyboard-accessible", "link-purpose", "bypass-blocks", "focus-order",
     "valid-html", "aria-usage" >>

RuleIds == {allRules[i] : i \in 1..Len(allRules)}

\* rule.check(document): the writes and violations of the rule, in order
Check(r, doc, marks, t) ==
  CASE r = "image-alt-text" -> imageAltText(doc, marks, t)
    [] r = "color-contrast" -> colorContrast(doc, marks, t)
    [] r = "heading-structure" -> headingStructure(doc, marks, t)
    [] r = "keyboard-accessible" -> keyboardAccessible(doc, marks, t)
    [] r = "link-purpose" -> linkPurpose(doc, marks, t)
    [] r = "bypass-blocks" -> bypassBlocks(doc, marks, t)
    [] r = "focus-order" -> focusOrder(doc, marks, t)
    [] r = "valid-html" -> validHTML(doc, marks, t)
    [] r = "fieldset-legend" -> fieldsetLegend(doc, marks, t)
    [] r = "required-fields" -> requiredFields(doc, marks, t)
    [] r = "form-labels" -> formLabels(doc, marks, t)
    [] OTHER -> ariaUsage(doc, marks, t)

\* as ClearMarkers, with querySelector for querySelectorAll: only the first
\* marked element is cleared
ClearMarkersFirstOnly(doc, marks) ==
  [n \in Nodes(doc) |->
     IF \E m \in 1..(n - 1) : marks[m] # NoAttr THEN marks[n] ELSE NoAttr]

\* previousViolations.forEach(element => element.removeAttribute('data-violation'))
ClearMarkers(doc, marks) == [n \in Nodes(doc) |-> NoAttr]

\* violations after the try block of one rule: a throwing check pushes nothing
PushViolations(violations, ems, threw) ==
  IF threw THEN violations ELSE violations \o Viols(ems)

\* as NextRule, with the try/catch around the loop instead of inside it
NextRuleAbortOnThrow(idx, threw) == IF threw THEN Len(allRules) + 1 ELSE idx + 1

\* the rule forEach goes on after a rule, whether it returned or threw
NextRule(idx, threw) == idx + 1

\* violations.filter(v => v.severity === sev).length
CountSeverity(violations, sev) ==
  Cardinality({i \in 1..Len(violations) : violations[i].severity = sev})

\* violations.filter(v => v.principle === p).length
CountPrinciple(violations, p) ==
  Cardinality({i \in 1..Len(violations) : violations[i].principle = p})

\* as Summary, with the minor count left out of the per-severity filters
SummaryNoMinor(violations) ==
  [ total |-> Len(violations),
    critical |-> CountSeverity(violations, "critical"),
    serious |-> CountSeverity(violations, "serious"),
    moderate |-> CountSeverity(violations, "moderate"),
    minor |-> 0,
    byPrinciple |->
      [ perceivable |-> CountPrinciple(violations, "perceivable"),
        operable |-> CountPrinciple(violations, "operable"),
        understandable |-> CountPrinciple(violations, "understandable"),
        robust |-> CountPrinciple(violations, "robust") ] ]

Summary(violations) ==
  [ total |-> Len(violations),
    critical |-> CountSeverity(violations, "critical"),
    serious |-> CountSeverity(violations, "serious"),
    moderate |-> CountSeverity(violations, "moderate"),
    minor |-> CountSeverity(violations, "minor"),
    byPrinciple |->
      [ perceivable |-> CountPrinciple(violations, "perceivable"),
        operable |-> CountPrinciple(violations, "operable"),
        understandable |-> CountPrinciple(violations, "understandable"),
        robust |-> CountPrinciple(violations, "robust") ] ]

\* ---------------------------------------------------------------- state
VARIABLES
  doc,         \* the document
  marks,       \* the data-violation attribute of each element
  now,         \* Date.now()
  pc,          \* "idle", or "scanning" inside scanPage, or "done" after a lone check
  ruleIdx,     \* the position in allRules of the rule scanPage runs next
  violations,  \* scanPage's violations array, or the array a lone check returned
  result,      \* the ScanResult scanPage returned last
  scans,       \* the number of scans started
  failing,     \* the rule whose check throws on this document, or "none"
  throwLate,   \* the failing check throws after its attribute writes
  stamp,       \* history: the scan that wrote each element's attribute last
  contrast,    \* two colours and the contrast ratio measured for them (-1: not yet)
  background,  \* an element and the effective background found for it (0: not yet)
  currentScanResult,  \* the popup's currentScanResult: <<>> (null) or <<ScanResult>>
  exported,    \* the text the popup wrote last (download or clipboard): <<>> or <<text>>
  spotlightActive,    \* the content script's spotlightActive flag
  overlay,     \* the element with id all-inclusive-spotlight-overlay is in the body
  boundingBox, \* the element the bounding box is drawn around, -1 when there is no box
  closures,    \* the toggleSpotlight calls that scrolled: their pending callbacks
  hasScrollEnd,  \* 'onscrollend' in window
  switchedOff  \* history: the last inspect request received turned the spotlight off

measureVars == <<contrast, background>>

popupVars == <<currentScanResult, exported>>

spotlightVars == <<spotlightActive, overlay, boundingBox, closures, hasScrollEnd, switchedOff>>

vars == <<doc, marks, now, pc, ruleIdx, violations, result, scans, failing, throwLate, stamp,
          measureVars, popupVars, spotlightVars>>

\* window.location.href of the scanned page
PageUrl == "https://example.com/page"

NoResult ==
  [ url |-> PageUrl, timestamp |-> -1, violations |-> <<>>, summary |-> Summary(<<>>) ]

NoContrast == [color1 |-> NoColor, color2 |-> NoColor, ratio |-> -1]

NoBackground == [element |-> 0, color |-> ""]

\* the popup script's module state when it is loaded
InitPopup ==
  /\ currentScanResult = <<>>
  /\ exported = <<>>

\* the content script's spotlight state when it is loaded
InitSpotlight ==
  /\ spotlightActive = FALSE
  /\ overlay = FALSE
  /\ boundingBox = -1
  /\ closures = <<>>
  /\ switchedOff = FALSE

\* the elements whose attribute the writes of ems set
Written(ems) == {ems[i].node : i \in 1..Len(ems)} \ {0}

InitPage(d) ==
  /\ doc = d
  /\ marks = [n \in Nodes(d) |-> NoAttr]
  /\ pc = "idle"
  /\ ruleIdx = 0
  /\ violations = <<>>
  /\ result = NoResult
  /\ scans = 0
  /\ stamp = [n \in Nodes(d) |-> 0]

InitOn(d) ==
  /\ InitPage(d)
  /\ contrast = NoContrast
  /\ background = NoBackground
  /\ InitPopup
  /\ InitSpotlight
  /\ hasScrollEnd = TRUE

\* scanPage, up to the rule loop
ScanStart ==
  /\ pc = "idle"
  /\ scans < MaxScans
  /\ marks' = ClearMarkers(doc, marks)
  /\ violations' = <<>>
  /\ pc' = "scanning"
  /\ ruleIdx' = 1
  /\ scans' = scans + 1
  /\ UNCHANGED <<doc, now, result, failing, throwLate, stamp>>
  /\ UNCHANGED <<measureVars, popupVars, spotlightVars>>

\* scanPage, one turn of allRules.forEach; the clock may have advanced
RunRule ==
  /\ pc = "scanning"
  /\ ruleIdx <= Len(allRules)
  /\ \E t \in {now, now + 1} :
       /\ t <= MaxClock
       /\ now' = t
       /\ LET r == allRules[ruleIdx]
              ems == Check(r, doc, marks, t)
              threw == failing = r
              wrote == ~threw \/ throwLate
          IN  /\ violations' = PushViolations(violations, ems, threw)
              /\ marks' = IF wrote THEN ApplyMarks(marks, ems) ELSE marks
              /\ stamp' = IF wrote
                          THEN [n \in Nodes(doc) |->
                                  IF n \in Written(ems) THEN scans ELSE stamp[n]]
                          ELSE stamp
              /\ ruleIdx' = NextRule(ruleIdx, threw)
  /\ UNCHANGED <<doc, pc, result, scans, failing, throwLate>>
  /\ UNCHANGED <<measureVars, popupVars, spotlightVars>>

\* scanPage, from the summary to the return
ScanFinish ==
  /\ pc = "scanning"
  /\ ruleIdx > Len(allRules)
  /\ result' = [ url |-> PageUrl, timestamp |-> now, violations |-> violations,
                 summary |-> Summary(violations) ]
  /\ pc' = "idle"
  /\ UNCHANGED <<doc, marks, now, ruleIdx, violations, scans, failing, throwLate, stamp>>
  /\ UNCHANGED <<measureVars, popupVars, spotlightVars>>

Next == ScanStart \/ RunRule \/ ScanFinish

\* ---------------------------------------------------------------- documents
Img == [Base EXCEPT !.tag = "img"]
LowH2 == [Base EXCEPT !.tag = "h2", !.text = "Title", !.color = "grey221"]
ClickDiv == [Base EXCEPT !.onclick = TRUE, !.cursor = "pointer", !.id = "x"]
BareInput == [Base EXCEPT !.tag = "input", !.tabindex = "-1"]
VagueLink == [Base EXCEPT !.tag = "a", !.href = "#", !.text = "here", !.tabindex = "2"]
LowP == [Base EXCEPT !.tag = "p", !.text = "Body", !.color = "grey119"]
BareButton == [Base EXCEPT !.tag = "button"]
PointerSpan == [Base EXCEPT !.tag = "span", !.cursor = "pointer"]

Palette == {Img, LowH2, ClickDiv, BareInput, VagueLink, LowP, BareButton, PointerSpan}

SeqsUpTo(S, k) == UNION {[1..m -> S] : m \in 0..k}

NavLink == [Base EXCEPT !.tag = "a", !.href = "/page", !.text = "Page", !.parent = 1]
NavDoc == << [Base EXCEPT !.tag = "nav"], NavLink, NavLink, NavLink, NavLink >>

Docs == SeqsUpTo(Palette, MaxNodes) \cup {NavDoc}

\* A document on which no check throws is scanned from clock 0, so that the
\* clock may advance at any rule; one on which a check throws is scanned with
\* the clock at its last value (the timestamps play no part in the runner's
\* error handling).
Init ==
  /\ \E d \in Docs : InitOn(d)
  /\ failing \in RuleIds \cup {"none"}
  /\ throwLate \in BOOLEAN
  /\ failing = "none" => ~throwLate
  /\ now = IF failing = "none" THEN 0 ELSE MaxClock

Spec == Init /\ [][Next]_vars

\* ---------------------------------------------------------------- properties
\* scanPage has returned: result is the ScanResult of the last scan and the
\* document carries the attributes that scan left
ScanDone == pc = "idle" /\ scans > 0

\* the violations of rule r in a list, in order
OfRule(vs, r) == SelectSeq(vs, LAMBDA v : v.ruleId = r)

\* a violation without its locator (which carries the time of the write)
NoLocator(v) ==
  [ id |-> v.id, ruleId |-> v.ruleId, principle |-> v.principle,
    severity |-> v.severity, message |-> v.message, description |-> v.description,
    flagged |-> v.flagged ]

NoLocators(vs) == [i \in 1..Len(vs) |-> NoLocator(vs[i])]

\* what rule r finds on the document as scanPage's clearing leaves it
Findings(r) == NoLocators(Viols(Check(r, doc, ClearMarkers(doc, marks), 0)))

\* document.querySelectorAll(locator): the elements a locator matches (0: the body)
Resolve(loc) ==
  IF loc = "body" THEN {0}
  ELSE {n \in Nodes(doc) : marks[n] # NoAttr /\ Locator(marks[n]) = loc}

\* C1: when the check of one rule throws, the ScanResult still holds, for every
\* other rule, exactly the violations that rule finds on the document, and it
\* holds no violation of the throwing rule.
C1_ThrowingRuleIsolated ==
  (ScanDone /\ failing \in RuleIds) =>
    \A r \in RuleIds :
      IF r = failing THEN OfRule(result.violations, r) = <<>>
      ELSE NoLocators(OfRule(result.violations, r)) = Findings(r)

\* a scan returned in which a rule that had findings threw and a later rule's
\* findings are in the result
C1_Witness ==
  /\ ScanDone
  /\ \E i \in 1..Len(allRules) : \E j \in (i + 1)..Len(allRules) :
       /\ allRules[i] = failing
       /\ Findings(failing) # <<>>
       /\ OfRule(result.violations, allRules[j]) # <<>>

\* C2: when scanPage returns, the locator of every violation matches exactly
\* one element, the element the rule flagged.
C2_LocatorResolvesToFlagged ==
  ScanDone =>
    \A i \in 1..Len(result.violations) :
      Resolve(result.violations[i].element) = {result.violations[i].flagged}

\* C3: no two distinct elements carry the same data-violation value.
C3_MarkersCollisionFree ==
  \A n \in Nodes(doc) : \A m \in Nodes(doc) :
    (n # m /\ marks[n] # NoAttr) => marks[n] # marks[m]

\* C4: within a scan, a data-violation attribute that has been written is not
\* written again.
C4_MarkerWrittenOnce ==
  [][\A n \in Nodes(doc) :
       (pc = "scanning" /\ marks[n] # NoAttr) => marks'[n] = marks[n]]_vars

\* C5: before the first rule of a scan runs no element carries a
\* data-violation attribute, and every attribute in the document was written
\* by the most recent scan.
C5_MarkersOfLastScanOnly ==
  /\ (pc = "scanning" /\ ruleIdx = 1) => \A n \in Nodes(doc) : marks[n] = NoAttr
  /\ \A n \in Nodes(doc) : marks[n] # NoAttr => stamp[n] = scans

\* the second scan is about to run its first rule, on a document the first
\* scan had marked
C5_Witness ==
  /\ pc = "scanning" /\ ruleIdx = 1 /\ scans = 2
  /\ Cardinality({n \in Nodes(doc) : stamp[n] = 1}) >= 2

\* C6: in every returned ScanResult, summary.total is the number of
\* violations, the four severity counts sum to it and the four byPrinciple
\* counts sum to it.
C6_SummaryPartitions ==
  ScanDone =>
    LET s == result.summary
    IN  /\ s.total = Len(result.violations)
        /\ s.critical + s.serious + s.moderate + s.minor = s.total
        /\ s.byPrinciple.perceivable + s.byPrinciple.operable
             + s.byPrinciple.understandable + s.byPrinciple.robust = s.total

\* a returned result with a minor violation and violations of two principles
C6_Witness ==
  /\ ScanDone
  /\ result.summary.minor > 0
  /\ result.summary.critical > 0
  /\ result.summary.byPrinciple.operable > 0
  /\ result.summary.byPrinciple.robust > 0

\* the inputs form-labels checks (its querySelectorAll)
formLabelsInputs(doc_) ==
  {n \in Nodes(doc_) :
     \/ /\ doc_[n].tag = "input"
        /\ doc_[n].type \notin {"hidden", "submit", "button", "reset", "image"}
     \/ doc_[n].tag \in {"textarea", "select"}}

\* C7: a scan of a document with a visible form input that has no label and no
\* ARIA name returns a form-labels violation of principle understandable.
C7_FormLabelsReported ==
  ( /\ ScanDone
    /\ failing = "none"
    /\ \E n \in formLabelsInputs(doc) :
         shouldCheckElement(doc, n) /\ ~hasLabel(doc, n) /\ ~hasAccessibleName(doc, n) )
  => \E i \in 1..Len(result.violations) :
       /\ result.violations[i].ruleId = "form-labels"
       /\ result.violations[i].principle = "understandable"

\* ---------------------------------------------------------------- one rule alone
\* rule.check(document) on a document no scan has touched
CheckAlone(r) ==
  /\ pc = "idle"
  /\ LET ems == Check(r, doc, marks, now)
     IN  /\ violations' = Viols(ems)
         /\ marks' = ApplyMarks(marks, ems)
  /\ pc' = "done"
  /\ UNCHANGED <<doc, now, ruleIdx, result, scans, failing, throwLate, stamp>>
  /\ UNCHANGED <<measureVars, popupVars, spotlightVars>>

InitAlone(D) ==
  /\ \E d \in D : InitOn(d)
  /\ now = 0
  /\ failing = "none"
  /\ throwLate = FALSE

NonEmptySeqsUpTo(S, k) == UNION {[1..m -> S] : m \in 1..k}

\* each child of a sequence of elements put under the element at index 1
Under(wrapper, kids) ==
  <<wrapper>> \o [i \in 1..Len(kids) |-> [kids[i] EXCEPT !.parent = 1]]

\* images: every combination of alt, title, aria-label and aria-hidden, alone or
\* inside an element that is labelled or hidden
ImgKinds ==
  { [Base EXCEPT !.tag = "img", !.alt = a, !.title = ti, !.ariaLabel = al,
                 !.ariaHidden = ah] :
      a \in {NoAttr, "", "A dog"}, ti \in {NoAttr, "", "T"},
      al \in {NoAttr, "Logo"}, ah \in {NoAttr, "true"} }
    \cup { [Base EXCEPT !.tag = "img", !.alt = "photo.jpg"] }

ImgWrappers ==
  { [Base EXCEPT !.ariaLabelledby = "cap"], [Base EXCEPT !.ariaHidden = "true"],
    [Base EXCEPT !.tag = "a", !.href = "/home", !.text = "Home"] }

ImgDocs ==
  NonEmptySeqsUpTo(ImgKinds, MaxImgs)
    \cup {Under(w, <<k>>) : w \in ImgWrappers, k \in ImgKinds}

InitImageAlt == InitAlone(ImgDocs)

SpecImageAlt == InitImageAlt /\ [][CheckAlone("image-alt-text")]_vars

\* headings: levels 1 to 4, with text, empty, or with text and hidden from
\* assistive technology; levels 1 and 2 also empty and hidden
HeadingKinds ==
  { [Base EXCEPT !.tag = tg, !.text = tx] :
      tg \in {"h1", "h2", "h3", "h4"}, tx \in {"Title", ""} }
    \cup { [Base EXCEPT !.tag = tg, !.text = "Title", !.ariaHidden = "true"] :
             tg \in {"h1", "h2", "h3", "h4"} }
    \cup { [Base EXCEPT !.tag = tg, !.text = "", !.ariaHidden = "true"] :
             tg \in {"h1", "h2"} }

HeadingDocs == NonEmptySeqsUpTo(HeadingKinds, MaxHeadings)

InitHeading == InitAlone(HeadingDocs)

SpecHeading == InitHeading /\ [][CheckAlone("heading-structure")]_vars

\* elements with identifiers: absent, empty or one of two values, shown or hidden
IdKinds ==
  { [Base EXCEPT !.id = i, !.ariaHidden = ah] :
      i \in {NoAttr, "", "a", "b"}, ah \in {NoAttr, "true"} }
    \cup { [Base EXCEPT !.tag = "button", !.className = "btn", !.text = "Go", !.id = i] :
             i \in {"a", "b"} }

IdDocs == NonEmptySeqsUpTo(IdKinds, MaxIds)

InitValidHtml == InitAlone(IdDocs)

SpecValidHtml == InitValidHtml /\ [][CheckAlone("valid-html")]_vars

\* the rule's check has returned: violations is what it returned
CheckDone == pc = "done"

\* C8 as stated: an image yields exactly one critical violation when it passes
\* the applicability filter and has neither alt attribute nor title, and none
\* otherwise.
C8_AsStated ==
  CheckDone =>
    \A n \in Nodes(doc) :
      doc[n].tag = "img" =>
        Len(SelectSeq(violations, LAMBDA v : v.flagged = n /\ v.severity = "critical"))
          = IF /\ shouldCheckElement(doc, n)
               /\ doc[n].alt = NoAttr
               /\ ~Truthy(doc[n].title)
            THEN 1 ELSE 0

\* C8: an image yields exactly one critical violation when it passes the
\* applicability filter, has no accessible name (aria-label, aria-labelledby,
\* or an ancestor's aria-labelledby), has no alt attribute and has no title or
\* an empty one; it yields no critical violation otherwise.
C8_CriticalIffUnnamedAndNoAlt ==
  CheckDone =>
    \A n \in Nodes(doc) :
      doc[n].tag = "img" =>
        Len(SelectSeq(violations, LAMBDA v : v.flagged = n /\ v.severity = "critical"))
          = IF /\ shouldCheckElement(doc, n)
               /\ ~hasAccessibleName(doc, n)
               /\ doc[n].alt = NoAttr
               /\ ~Truthy(doc[n].title)
            THEN 1 ELSE 0

\* the rule ran on two images: one flagged critical, the other with an empty
\* alt and not critical
C8_Witness ==
  /\ CheckDone
  /\ \E n \in Nodes(doc) : \E m \in Nodes(doc) :
       /\ doc[n].tag = "img" /\ doc[m].tag = "img"
       /\ doc[m].alt = "" /\ shouldCheckElement(doc, m) /\ ~hasAccessibleName(doc, m)
       /\ Len(SelectSeq(violations, LAMBDA v : v.flagged = n /\ v.severity = "critical")) = 1
       /\ Len(SelectSeq(violations, LAMBDA v : v.flagged = m /\ v.severity = "critical")) = 0

\* the headings kept for the sequence checks: with text and applicable
FilteredHeadings ==
  InOrder({n \in Nodes(doc) :
             /\ doc[n].tag \in HeadingTags
             /\ Trim(TextContent(doc, n)) # ""
             /\ shouldCheckElement(doc, n)})

LevelOf(n) == HeadingLevel(doc[n].tag)

\* the positions i >= 2 of the filtered sequence where the level rises by more than one
SkipPositions ==
  InOrder({i \in 2..Len(FilteredHeadings) :
             LevelOf(FilteredHeadings[i]) - LevelOf(FilteredHeadings[i - 1]) > 1})

SkippedViolations ==
  SelectSeq(violations, LAMBDA v :
    v.severity = "moderate" /\ v.message # "Multiple H1 headings found")

\* C9: heading-structure emits a moderate skipped-level violation exactly at
\* the positions of the filtered sequence where the level rises by more than
\* one, citing the previous and the current level; on headings of levels
\* 1, 2, 4 the rule's whole output is that one violation.
C9_SkippedLevels ==
  CheckDone =>
    /\ Len(SkippedViolations) = Len(SkipPositions)
    /\ \A k \in 1..Len(SkipPositions) :
         LET i == SkipPositions[k]
             v == SkippedViolations[k]
         IN  /\ v.flagged = FilteredHeadings[i]
             /\ v.message = "Heading level skipped from H"
                              \o Str(LevelOf(FilteredHeadings[i - 1]))
                              \o " to H" \o Str(LevelOf(FilteredHeadings[i]))
    /\ ( /\ Len(doc) = 3
         /\ Len(FilteredHeadings) = 3
         /\ [i \in 1..3 |-> LevelOf(FilteredHeadings[i])] = <<1, 2, 4>> )
       => /\ Len(violations) = 1
          /\ violations[1].message = "Heading level skipped from H2 to H4"

\* the rule ran on headings of levels 1, 2, 4
C9_Witness ==
  /\ CheckDone
  /\ Len(doc) = 3
  /\ Len(FilteredHeadings) = 3
  /\ [i \in 1..3 |-> LevelOf(FilteredHeadings[i])] = <<1, 2, 4>>
  /\ Len(violations) = 1

\* the applicable elements that carry identifier id, in document order
Carriers(id) ==
  InOrder({n \in Nodes(doc) : doc[n].id = id /\ shouldCheckElement(doc, n)})

\* "1. <tag.class>, 2. <tag.class>, ...": the first k occurrences
RECURSIVE Occurrences(_, _)
Occurrences(els, k) ==
  IF k = 0 THEN ""
  ELSE Occurrences(els, k - 1)
         \o (IF k = 1 THEN "" ELSE ", ")
         \o Str(k) \o ". <" \o doc[els[k]].tag
         \o (IF doc[els[k]].className = "" THEN "" ELSE "." \o doc[els[k]].className)
         \o ">"

IdValues == {doc[n].id : n \in Nodes(doc)} \ {NoAttr, ""}

\* C10: an identifier carried by N >= 2 applicable elements yields exactly one
\* serious violation, anchored to the first of them, whose description counts
\* and lists all N; an identifier carried by fewer yields none.
C10_OneViolationPerDuplicatedId ==
  CheckDone =>
    /\ \A id \in IdValues :
         LET vs == SelectSeq(violations, LAMBDA v : v.id = "duplicate-id-" \o id)
             els == Carriers(id)
         IN  IF Len(els) >= 2
             THEN /\ Len(vs) = 1
                  /\ vs[1].severity = "serious"
                  /\ vs[1].flagged = els[1]
                  /\ vs[1].description =
                       "The ID \"" \o id \o "\" is used " \o Str(Len(els))
                         \o " times on the page. IDs must be unique. Found in: "
                         \o Occurrences(els, Len(els))
             ELSE vs = <<>>
    /\ Len(violations) = Cardinality({id \in IdValues : Len(Carriers(id)) >= 2})

\* the rule ran on three applicable elements with one identifier and
\* returned one violation
C10_Witness ==
  /\ CheckDone
  /\ \E id \in IdValues : Len(Carriers(id)) = 3
  /\ Len(violations) = 1

\* ---------------------------------------------------------------- color-contrast
\* paragraphs: six text colours at five font size / weight pairs on the
\* default background, one on a black background, and three the rule skips
\* (hidden from assistive technology, without text, under 10px wide)
TextColors == {"black", "grey119", "grey140", "grey160", "grey200", "oklch"}

FontKinds == {<<13, 400>>, <<13, 700>>, <<14, 400>>, <<14, 700>>, <<18, 400>>}

Para == [Base EXCEPT !.tag = "p", !.text = "Body"]

TextKinds ==
  { [Para EXCEPT !.color = c, !.fontSize = f[1], !.fontWeight = f[2]] :
      c \in TextColors, f \in FontKinds }
    \cup { [Para EXCEPT !.color = "grey200", !.bg = "black", !.bgAlpha = 100],
           [Para EXCEPT !.color = "grey200", !.ariaHidden = "true"],
           [Para EXCEPT !.color = "grey200", !.text = ""],
           [Para EXCEPT !.color = "grey200", !.width = 8] }

TextDocs == NonEmptySeqsUpTo(TextKinds, MaxTexts)

InitContrast == InitAlone(TextDocs)

SpecContrast == InitContrast /\ [][CheckAlone("color-contrast")]_vars

\* the rule does not skip the element: it is applicable, has text, is at least
\* 10px by 10px and both its colours parse
NotSkipped(n) ==
  /\ doc[n].tag \in TextTags
  /\ shouldCheckElement(doc, n)
  /\ Trim(TextContent(doc, n)) # ""
  /\ doc[n].width >= 10 /\ doc[n].height >= 10
  /\ parseRgbColor(doc[n].color) # NoColor
  /\ parseRgbColor(getEffectiveBackgroundColor(doc, n)) # NoColor

\* the contrast ratio of the element's text, in thousandths
RatioOf(n) ==
  getContrastRatio(parseRgbColor(doc[n].color),
                   parseRgbColor(getEffectiveBackgroundColor(doc, n)))

\* 3.0 for large text and 4.5 otherwise, in thousandths
RequiredOf(n) ==
  IF doc[n].fontSize >= 18 \/ (doc[n].fontSize >= 14 /\ doc[n].fontWeight >= 700)
  THEN 3000 ELSE 4500

ContrastViolations(n) == SelectSeq(violations, LAMBDA v : v.flagged = n)

MeasureContrast ==
  /\ contrast.ratio = -1
  /\ contrast' = [contrast EXCEPT
                    !.ratio = getContrastRatio(contrast.color1, contrast.color2)]
  /\ UNCHANGED <<doc, marks, now, pc, ruleIdx, violations, result, scans, failing,
                 throwLate, stamp, background, popupVars, spotlightVars>>

\* colours: every combination of three channel values
ChannelValues == {0, 119, 255}

Colors == {[r |-> x, g |-> y, b |-> z] : x \in ChannelValues, y \in ChannelValues,
                                          z \in ChannelValues}

InitMeasure ==
  /\ InitPage(<<>>)
  /\ now = 0
  /\ failing = "none"
  /\ throwLate = FALSE
  /\ InitPopup
  /\ InitSpotlight
  /\ hasScrollEnd = TRUE
  /\ background = NoBackground
  /\ \E c1 \in Colors : \E c2 \in Colors :
       contrast = [color1 |-> c1, color2 |-> c2, ratio |-> -1]

SpecMeasure == InitMeasure /\ [][MeasureContrast]_vars

Black == [r |-> 0, g |-> 0, b |-> 0]

White == [r |-> 255, g |-> 255, b |-> 255]

\* C12: the contrast ratio of black and white is 21 (within 0.01), and the
\* contrast ratio of a colour and itself is 1.
C12_ContrastRatioEnds ==
  contrast.ratio # -1 =>
    /\ (contrast.color1 = Black /\ contrast.color2 = White) =>
          (contrast.ratio >= 20990 /\ contrast.ratio <= 21010)
    /\ contrast.color1 = contrast.color2 => contrast.ratio = 1000

\* the ratio of black and white has been measured
C12_Witness ==
  /\ contrast.color1 = Black
  /\ contrast.color2 = White
  /\ contrast.ratio = 21000

\* ---------------------------------------------------------------- fieldset-legend
\* the place of a legend: a legend with text, an empty legend, or a div
LegendSlot(kind, parent) ==
  [Base EXCEPT !.tag = IF kind = "div" THEN "div" ELSE "legend",
               !.text = IF kind = "text" THEN "Size" ELSE "",
               !.parent = parent]

SlotKinds == {"div", "empty", "text"}

RadioKinds ==
  { [Base EXCEPT !.tag = "input", !.type = "radio", !.name = nm, !.parent = pr,
                 !.ariaHidden = ah] :
      nm \in {"g", "h"}, pr \in {0, 1, 3}, ah \in {NoAttr, "true"} }

\* a fieldset (1) with a legend place (2), a second fieldset (3) beside or
\* inside the first with a legend place (4), and radio buttons in the body or
\* in either fieldset
FieldsetDocs ==
  { << [Base EXCEPT !.tag = "fieldset"], LegendSlot(k2, 1),
       [Base EXCEPT !.tag = "fieldset", !.parent = p3], LegendSlot(k4, 3) >> \o radios :
      k2 \in SlotKinds, p3 \in {0, 1}, k4 \in SlotKinds,
      radios \in NonEmptySeqsUpTo(RadioKinds, MaxRadios) }

InitFieldset == InitAlone(FieldsetDocs)

SpecFieldset == InitFieldset /\ [][CheckAlone("fieldset-legend")]_vars

\* the applicable radio buttons that share a name
RadioMembers(name) ==
  {n \in Nodes(doc) : /\ doc[n].tag = "input" /\ doc[n].type = "radio"
                       /\ doc[n].name = name /\ shouldCheckElement(doc, n)}

RadioNames == {doc[n].name : n \in Nodes(doc)} \ {NoAttr, ""}

\* the fieldsets that are ancestors of every member of the group
CommonFieldsets(name) ==
  {f \in Nodes(doc) : /\ doc[f].tag = "fieldset"
                       /\ \A n \in RadioMembers(name) : IsAncestor(doc, f, n)}

HasLegendChild(f) ==
  \E m \in Nodes(doc) :
    doc[m].parent = f /\ doc[m].tag = "legend" /\ Trim(TextContent(doc, m)) # ""

RadioGroupViolations(name) ==
  SelectSeq(violations, LAMBDA v :
    v.id \in {"fieldset-radio-" \o name, "fieldset-legend-" \o name})

OneSerious(vs) == Len(vs) = 1 /\ vs[1].severity = "serious"

\* C13: for each group of at least two applicable radio buttons sharing a
\* name, fieldset-legend emits exactly one serious violation when no fieldset
\* is an ancestor of all members, exactly one serious violation when the
\* fieldsets that are ancestors of all members have no non-empty legend child,
\* and none when they have one.
C13_RadioGroupFieldset ==
  CheckDone =>
    \A name \in RadioNames :
      Cardinality(RadioMembers(name)) >= 2 =>
        LET common == CommonFieldsets(name)
            vs == RadioGroupViolations(name)
        IN  IF common = {} THEN OneSerious(vs)
            ELSE IF \A f \in common : HasLegendChild(f) THEN vs = <<>>
            ELSE IF \A f \in common : ~HasLegendChild(f) THEN OneSerious(vs)
            ELSE TRUE

\* ---------------------------------------------------------------- required-fields
\* a label (1), referencing "email" or not, with or without a required mark,
\* followed by inputs inside or after it
FieldLabels ==
  { [Base EXCEPT !.tag = "label", !.for = f, !.text = tx] :
      f \in {NoAttr, "email"},
      tx \in {"Email Address *", "Email Address", "Name (required)"} }

FieldKinds ==
  { [Base EXCEPT !.tag = "input", !.type = "text", !.parent = pr, !.id = i,
                 !.required = rq, !.ariaRequired = ar] :
      pr \in {0, 1}, i \in {NoAttr, "email"}, rq \in BOOLEAN, ar \in {NoAttr, "true"} }
    \cup { [Base EXCEPT !.tag = "input", !.type = "text", !.parent = pr,
                        !.ariaHidden = "true"] : pr \in {0, 1} }

FieldDocs ==
  { <<l>> \o fields : l \in FieldLabels, fields \in NonEmptySeqsUpTo(FieldKinds, MaxFields) }

InitRequired == InitAlone(FieldDocs)

SpecRequired == InitRequired /\ [][CheckAlone("required-fields")]_vars

\* the label associated with a control, resolved as label presence is: the
\* labels that reference its id and the label it is nested in
AssociatedLabels(n) ==
  {m \in Nodes(doc) :
     /\ doc[m].tag = "label"
     /\ \/ (Truthy(doc[n].id) /\ doc[m].for = doc[n].id)
        \/ IsAncestor(doc, m, n)}

MarkedRequired(n) ==
  \E m \in AssociatedLabels(n) : hasVisualRequired(Trim(TextContent(doc, m)))

RequiredViolations(vs, n) ==
  SelectSeq(vs, LAMBDA v : v.flagged = n)

\* C14: for each applicable form control whose associated label carries a
\* required mark, required-fields emits exactly one serious violation iff the
\* control has neither required nor aria-required="true"; with the required
\* attribute added to a flagged control the rule returns the same violations
\* without that one.
C14_RequiredFieldsFlagged ==
  CheckDone =>
    \A n \in formInputs(doc) :
      (shouldCheckElement(doc, n) /\ MarkedRequired(n)) =>
        LET vs == RequiredViolations(violations, n)
        IN  IF ~doc[n].required /\ doc[n].ariaRequired # "true"
            THEN /\ Len(vs) = 1
                 /\ vs[1].severity = "serious"
                 /\ NoLocators(Viols(requiredFields(
                       [doc EXCEPT ![n].required = TRUE], ClearMarkers(doc, marks), now)))
                      = NoLocators(SelectSeq(violations, LAMBDA v : v.flagged # n))
            ELSE vs = <<>>

\* ---------------------------------------------------------------- bypass-blocks
SkipLink == [Base EXCEPT !.tag = "a", !.href = "#main", !.text = "Skip to main content"]

TopLink == [Base EXCEPT !.tag = "a", !.href = "#top", !.text = "Back to top"]

HomeLink == [Base EXCEPT !.tag = "a", !.href = "/home", !.text = "Home"]

\* what precedes the navigation
Prefixes == { <<>>, <<SkipLink>>, <<TopLink>>, <<HomeLink, SkipLink>>, <<TopLink, SkipLink>> }

\* a container at index at with k links in it
ContainerWith(tag, k, at) ==
  << [Base EXCEPT !.tag = tag] >>
    \o [i \in 1..k |-> [Base EXCEPT !.tag = "a", !.href = "/page", !.text = "Page",
                                    !.parent = at]]

\* a prefix, a nav or header with up to MaxLinks links and, in some, a second
\* nav with up to MaxLinks links
BypassDocs ==
  { pre \o ContainerWith(tg, k1, Len(pre) + 1) :
      pre \in Prefixes, tg \in {"nav", "header"}, k1 \in 0..MaxLinks }
    \cup { pre \o ContainerWith("nav", k1, Len(pre) + 1)
                \o ContainerWith("nav", k2, Len(pre) + k1 + 2) :
             pre \in Prefixes, k1 \in 0..MaxLinks, k2 \in 0..MaxLinks }

InitBypass == InitAlone(BypassDocs)

SpecBypass == InitBypass /\ [][CheckAlone("bypass-blocks")]_vars

LinksIn(n) == {m \in Descendants(doc, n) : doc[m].tag = "a"}

\* a nav with more than 3 links
SignificantNav ==
  \E n \in Nodes(doc) : doc[n].tag = "nav" /\ Cardinality(LinksIn(n)) > 3

\* a header with more than 3 navs and links
SignificantHeader ==
  \E n \in Nodes(doc) :
    /\ doc[n].tag = "header"
    /\ Cardinality({m \in Descendants(doc, n) : doc[m].tag \in {"nav", "a"}}) > 3

HashAnchors == {n \in Nodes(doc) : doc[n].tag = "a" /\ HashHref(doc[n].href)}

\* there is no hash-href anchor, or the first one has no "skip" in its text or
\* aria-label
NoSkipAnchor ==
  \/ HashAnchors = {}
  \/ /\ ~TextIncludesSkip(doc, First(HashAnchors))
     /\ ~IncludesSkip(doc[First(HashAnchors)].ariaLabel)

\* C15: bypass-blocks emits nothing on a document without a nav of more than 3
\* links and without a header of more than 3 navs and links; on a document
\* with a nav of more than 3 links whose first hash-href anchor (if any) has
\* no "skip" in its text or name it emits exactly one moderate violation
\* anchored to the body.
C15_SkipLinkForSignificantNav ==
  CheckDone =>
    /\ (~SignificantNav /\ ~SignificantHeader) => violations = <<>>
    /\ (SignificantNav /\ NoSkipAnchor) =>
          /\ Len(violations) = 1
          /\ violations[1].severity = "moderate"
          /\ violations[1].element = "body"

\* ---------------------------------------------------------------- popup export
\* Date.prototype.toISOString of a time t milliseconds after the epoch, t < 10
toISOString(t) == "1970-01-01T00:00:00.00" \o Str(t) \o "Z"

\* A JSON text is modelled by its tokens: a number is written bare, a string
\* quoted.  JSON.parse maps a number token to the number and a string token
\* to the string, so two texts parse to equal values iff their tokens are equal.
JNumber(n) == [json |-> "number", text |-> Str(n)]

JString(s) == [json |-> "string", text |-> "\"" \o s \o "\""]

\* JSON.stringify of a summary
StringifySummary(s) ==
  [ total |-> JNumber(s.total), critical |-> JNumber(s.critical),
    serious |-> JNumber(s.serious), moderate |-> JNumber(s.moderate),
    minor |-> JNumber(s.minor),
    byPrinciple |->
      [ perceivable |-> JNumber(s.byPrinciple.perceivable),
        operable |-> JNumber(s.byPrinciple.operable),
        understandable |-> JNumber(s.byPrinciple.understandable),
        robust |-> JNumber(s.byPrinciple.robust) ] ]

\* JSON.stringify of a violation (flagged is not a property of the object)
StringifyViolation(v) ==
  [ id |-> JString(v.id), ruleId |-> JString(v.ruleId),
    principle |-> JString(v.principle), severity |-> JString(v.severity),
    message |-> JString(v.message), description |-> JString(v.description),
    element |-> JString(v.element) ]

StringifyViolations(vs) == [i \in 1..Len(vs) |-> StringifyViolation(vs[i])]

\* JSON.stringify(exportData, null, 2), exportData built from the popup's
\* currentScanResult at time t
ExportText(r, t) ==
  [ timestamp |-> JString(toISOString(t)),
    url |-> JString(IF r.url = "" THEN "unknown" ELSE r.url),
    summary |-> StringifySummary(r.summary),
    violations |-> StringifyViolations(r.violations) ]

\* handleScan, from the response of the content script on
ReceiveScanResult ==
  /\ pc = "idle"
  /\ scans > 0
  /\ currentScanResult # <<result>>
  /\ currentScanResult' = <<result>>
  /\ UNCHANGED <<doc, marks, now, pc, ruleIdx, violations, result, scans, failing,
                 throwLate, stamp, exported, measureVars, spotlightVars>>

\* the text written through a channel at time t, with (history) the
\* ScanResult it was built from
ExportRecord(via, r, t) ==
  [ via |-> via, text |-> ExportText(r, t), source |-> r ]

\* handleExport: the text goes to a downloaded file
HandleExport ==
  /\ currentScanResult # <<>>
  /\ \E t \in {now, now + 1} :
       /\ t <= MaxClock
       /\ now' = t
       /\ exported' = <<ExportRecord("download", currentScanResult[1], t)>>
  /\ UNCHANGED <<doc, marks, pc, ruleIdx, violations, result, scans, failing,
                 throwLate, stamp, currentScanResult, measureVars, spotlightVars>>

\* handleCopy: the text goes to the clipboard
HandleCopy ==
  /\ currentScanResult # <<>>
  /\ \E t \in {now, now + 1} :
       /\ t <= MaxClock
       /\ now' = t
       /\ exported' = <<ExportRecord("clipboard", currentScanResult[1], t)>>
  /\ UNCHANGED <<doc, marks, pc, ruleIdx, violations, result, scans, failing,
                 throwLate, stamp, currentScanResult, measureVars, spotlightVars>>

PopupDocs == { <<>>, <<Img>>, <<VagueLink>>, <<LowH2, BareInput>> }

InitExport ==
  /\ \E d \in PopupDocs : InitOn(d)
  /\ now = 0
  /\ failing = "none"
  /\ throwLate = FALSE

NextExport ==
  ScanStart \/ RunRule \/ ScanFinish \/ ReceiveScanResult \/ HandleExport \/ HandleCopy

SpecExport == InitExport /\ [][NextExport]_vars

\* C16: the text written by handleExport or handleCopy holds, token for token,
\* the timestamp, url, summary and violations of the ScanResult it was built
\* from, so that parsing it gives back those four fields.
C16_ExportIsLossless ==
  exported # <<>> =>
    LET text == exported[1].text
        source == exported[1].source
    IN  /\ text.timestamp = JNumber(source.timestamp)
        /\ text.url = JString(source.url)
        /\ text.summary = StringifySummary(source.summary)
        /\ text.violations = StringifyViolations(source.violations)

\* ---------------------------------------------------------------- spotlight
\* the state one toggleSpotlight call that had to scroll closes over: the
\* element, its spotlightCreated flag, and which of its callbacks (the
\* scrollend listener, the 800ms timeout, the animation frame) are pending
Closure(element) ==
  [ element |-> element, spotlightCreated |-> FALSE, listener |-> hasScrollEnd,
    timeout |-> TRUE, frame |-> ~hasScrollEnd, stableCount |-> 0 ]

\* the locators the popup can send: those of the violations it displays
Selectors == {result.violations[i].element : i \in 1..Len(result.violations)}

\* the chrome.runtime.onMessage listener on INSPECT_ELEMENT: toggleSpotlight(selector)
ToggleSpotlight(selector) ==
  /\ pc = "idle"
  /\ switchedOff' = spotlightActive
  /\ IF spotlightActive
     THEN \* cleanupSpotlight(); return
          /\ overlay' = FALSE
          /\ boundingBox' = -1
          /\ spotlightActive' = FALSE
          /\ UNCHANGED closures
     ELSE IF Resolve(selector) = {}
     THEN \* console.warn; return
          UNCHANGED <<spotlightActive, overlay, boundingBox, closures>>
     ELSE LET element == First(Resolve(selector))
          IN  \/ \* isInView: createSpotlight()
                 /\ overlay' = TRUE
                 /\ boundingBox' = element
                 /\ spotlightActive' = TRUE
                 /\ UNCHANGED closures
              \/ \* scrollIntoView, and the callbacks are registered
                 /\ Len(closures) < MaxClosures
                 /\ closures' = Append(closures, Closure(element))
                 /\ UNCHANGED <<spotlightActive, overlay, boundingBox>>
  /\ UNCHANGED <<doc, marks, now, pc, ruleIdx, violations, result, scans, failing,
                 throwLate, stamp, measureVars, popupVars, hasScrollEnd>>

Inspect == \E selector \in Selectors : ToggleSpotlight(selector)

\* the closures whose createSpotlight a scrollend event runs, in order
RECURSIVE LastCreated(_, _)
LastCreated(cs, box) ==
  IF cs = <<>> THEN box
  ELSE LastCreated(Tail(cs),
                   IF Head(cs).listener /\ ~Head(cs).spotlightCreated
                   THEN Head(cs).element ELSE box)

\* a scrollend event: every registered scrollEndHandler runs and removes itself
ScrollEnd ==
  /\ pc = "idle"
  /\ \E i \in 1..Len(closures) : closures[i].listener
  /\ LET creates == \E i \in 1..Len(closures) :
                      closures[i].listener /\ ~closures[i].spotlightCreated
     IN  /\ overlay' = (overlay \/ creates)
         /\ spotlightActive' = (spotlightActive \/ creates)
         /\ boundingBox' = LastCreated(closures, boundingBox)
  /\ closures' = [i \in 1..Len(closures) |->
                    IF closures[i].listener
                    THEN [closures[i] EXCEPT !.listener = FALSE, !.spotlightCreated = TRUE]
                    ELSE closures[i]]
  /\ UNCHANGED <<doc, marks, now, pc, ruleIdx, violations, result, scans, failing,
                 throwLate, stamp, measureVars, popupVars, hasScrollEnd, switchedOff>>

\* the 800ms fallback timeout of one call fires
Timeout ==
  /\ pc = "idle"
  /\ \E i \in 1..Len(closures) :
       /\ closures[i].timeout
       /\ closures' = [closures EXCEPT ![i].timeout = FALSE, ![i].spotlightCreated = TRUE]
       /\ IF closures[i].spotlightCreated
          THEN UNCHANGED <<spotlightActive, overlay, boundingBox>>
          ELSE /\ overlay' = TRUE
               /\ boundingBox' = closures[i].element
               /\ spotlightActive' = TRUE
  /\ UNCHANGED <<doc, marks, now, pc, ruleIdx, violations, result, scans, failing,
                 throwLate, stamp, measureVars, popupVars, hasScrollEnd, switchedOff>>

\* checkScroll of one call runs in an animation frame; the scroll position
\* has moved since the last frame or not
Frame ==
  /\ pc = "idle"
  /\ \E i \in 1..Len(closures) : \E stable \in BOOLEAN :
       LET c == closures[i]
       IN  /\ c.frame
           /\ IF c.spotlightCreated
              THEN /\ closures' = [closures EXCEPT ![i].frame = FALSE]
                   /\ UNCHANGED <<spotlightActive, overlay, boundingBox>>
              ELSE IF stable /\ c.stableCount + 1 >= 3
              THEN \* clearTimeout(timeoutId); createSpotlight()
                   /\ closures' = [closures EXCEPT ![i].frame = FALSE,
                                                    ![i].timeout = FALSE,
                                                    ![i].spotlightCreated = TRUE,
                                                    ![i].stableCount = 3]
                   /\ overlay' = TRUE
                   /\ boundingBox' = c.element
                   /\ spotlightActive' = TRUE
              ELSE /\ closures' = [closures EXCEPT
                                     ![i].stableCount = IF stable THEN c.stableCount + 1
                                                        ELSE 0]
                   /\ UNCHANGED <<spotlightActive, overlay, boundingBox>>
  /\ UNCHANGED <<doc, marks, now, pc, ruleIdx, violations, result, scans, failing,
                 throwLate, stamp, measureVars, popupVars, hasScrollEnd, switchedOff>>

SpotlightDocs == { <<VagueLink>>, <<Img, LowH2>> }

\* the page is scanned with the clock at its last value (the timestamps play
\* no part in the spotlight)
InitInspect ==
  /\ \E d \in SpotlightDocs : InitPage(d)
  /\ now = MaxClock
  /\ failing = "none"
  /\ throwLate = FALSE
  /\ contrast = NoContrast
  /\ background = NoBackground
  /\ InitPopup
  /\ InitSpotlight
  /\ hasScrollEnd \in BOOLEAN

NextInspect ==
  ScanStart \/ RunRule \/ ScanFinish \/ Inspect \/ ScrollEnd \/ Timeout \/ Frame

SpecInspect == InitInspect /\ [][NextInspect]_vars

\* C17: an inspect request whose locator matches no element changes neither
\* the overlay, nor the bounding box, nor the spotlight-active flag, whatever
\* the spotlight state.
C17_StaleInspectIsNoOp ==
  [][\A selector \in Selectors :
       (Resolve(selector) = {} /\ ToggleSpotlight(selector)) =>
         UNCHANGED <<spotlightActive, overlay, boundingBox>>]_vars

\* ---------------------------------------------------------------- aria-usage
\* buttons: with or without text, aria-label and aria-hidden, a div with
\* role button; alone or with one child: a span (with or without text, hidden
\* from assistive technology or not) or an image (with or without alt)
ButtonKinds ==
  { [Base EXCEPT !.tag = "button", !.text = tx, !.ariaLabel = al, !.ariaHidden = ah] :
      tx \in {"", "Close"}, al \in {NoAttr, "Close dialog"}, ah \in {NoAttr, "true"} }
    \cup { [Base EXCEPT !.role = "button"] }

ButtonChildren ==
  { [Base EXCEPT !.tag = "span", !.text = tx, !.ariaHidden = ah] :
      tx \in {"", "x"}, ah \in {NoAttr, "true"} }
    \cup { [Base EXCEPT !.tag = "img", !.alt = a] : a \in {NoAttr, "Close"} }

\* form inputs: with or without id, aria-label and aria-hidden, of type text or
\* reset; alone, after a label that references "u" or inside a label
InputKinds ==
  { [Base EXCEPT !.tag = "input", !.type = ty, !.id = i, !.ariaLabel = al,
                 !.ariaHidden = ah] :
      ty \in {"text", "reset"}, i \in {NoAttr, "u"}, al \in {NoAttr, "Username"},
      ah \in {NoAttr, "true"} }

AriaDocs ==
  { <<b>> : b \in ButtonKinds }
    \cup { Under(b, <<c>>) : b \in ButtonKinds, c \in ButtonChildren }
    \cup { <<i>> : i \in InputKinds }
    \cup { << [Base EXCEPT !.tag = "label", !.for = "u", !.text = "User"], i >> :
             i \in InputKinds }
    \cup { Under([Base EXCEPT !.tag = "label", !.text = "User"], <<i>>) : i \in InputKinds }

InitAria == InitAlone(AriaDocs)

SpecAria == InitAria /\ [][CheckAlone("aria-usage")]_vars

IsButton(n) == doc[n].tag = "button" \/ doc[n].role = "button"

\* m, in the subtree of n, is inside an element of the subtree (n excluded)
\* that has aria-hidden="true"
HiddenWithin(n, m) ==
  \E h \in Descendants(doc, n) : doc[h].ariaHidden = "true" /\ Contains(doc, h, m)

\* the text of the button outside aria-hidden elements is empty, and there is
\* text inside them
OnlyHiddenText(n) ==
  /\ \A m \in {n} \cup Descendants(doc, n) :
       Trim(doc[m].text) # "" => HiddenWithin(n, m)
  /\ \E m \in Descendants(doc, n) : Trim(doc[m].text) # ""

HasInnerNamedContent(n) ==
  \E m \in Descendants(doc, n) :
    \/ doc[m].tag = "img" /\ doc[m].alt # NoAttr
    \/ doc[m].ariaLabel # NoAttr
    \/ doc[m].ariaLabelledby # NoAttr

\* C18: aria-usage emits a critical "Button has no accessible name" violation
\* for every applicable button whose only text lies inside aria-hidden
\* descendants and which has no aria-label, no aria-labelledby and no inner
\* named content.
C18_HiddenTextIsNoName ==
  CheckDone =>
    \A n \in Nodes(doc) :
      ( /\ IsButton(n)
        /\ shouldCheckElement(doc, n)
        /\ OnlyHiddenText(n)
        /\ ~hasAccessibleName(doc, n)
        /\ ~HasInnerNamedContent(n) )
      => \E i \in 1..Len(violations) :
           /\ violations[i].flagged = n
           /\ violations[i].severity = "critical"
           /\ violations[i].message = "Button has no accessible name"

\* C19: aria-usage emits no violation for a form input, so that no input is
\* reported both by aria-usage and by form-labels.
C19_NoInputViolationFromAriaUsage ==
  CheckDone =>
    /\ \A i \in 1..Len(violations) : violations[i].flagged \notin formInputs(doc)
    /\ LET fl == Viols(formLabels(doc, ClearMarkers(doc, marks), now))
       IN  \A i \in 1..Len(violations) : \A j \in 1..Len(fl) :
             violations[i].flagged # fl[j].flagged

\* ---------------------------------------------------------------- empty headings
EmptyHeadings ==
  {n \in Nodes(doc) : doc[n].tag \in HeadingTags /\ Trim(TextContent(doc, n)) = ""}

FlaggedAt(n) == SelectSeq(violations, LAMBDA v : v.flagged = n)

WithMessage(msg) == SelectSeq(violations, LAMBDA v : v.message = msg)

FilteredH1s == {i \in 1..Len(FilteredHeadings) : LevelOf(FilteredHeadings[i]) = 1}

\* C20: every heading whose trimmed text is empty yields exactly one serious
\* empty-heading violation (and no other), applicable or not, and the
\* missing-H1, multiple-H1 and skipped-level checks run on the sequence of the
\* applicable headings that have text.
C20_EmptyHeadingsReportedAndExcluded ==
  CheckDone =>
    /\ \A n \in EmptyHeadings :
         /\ Len(FlaggedAt(n)) = 1
         /\ FlaggedAt(n)[1].message = "Empty heading found"
         /\ FlaggedAt(n)[1].severity = "serious"
    /\ Len(WithMessage("Empty heading found")) = Cardinality(EmptyHeadings)
    /\ Len(WithMessage("Page missing H1 heading"))
         = IF FilteredHeadings # <<>> /\ FilteredH1s = {} THEN 1 ELSE 0
    /\ Len(WithMessage("Multiple H1 headings found"))
         = IF Cardinality(FilteredH1s) > 1 THEN Cardinality(FilteredH1s) - 1 ELSE 0
    /\ Len(SkippedViolations) = Len(SkipPositions)
    /\ \A k \in 1..Len(SkipPositions) :
         SkippedViolations[k].flagged = FilteredHeadings[SkipPositions[k]]

\* the rule ran on an empty level-1 heading hidden from assistive technology
\* followed by headings with text: the empty one is reported once and the page
\* is reported as missing its H1
C20_Witness ==
  /\ CheckDone
  /\ \E n \in EmptyHeadings :
       /\ doc[n].tag = "h1"
       /\ ~shouldCheckElement(doc, n)
       /\ Len(FlaggedAt(n)) = 1
       /\ n < Len(doc)
  /\ \E n \in EmptyHeadings : doc[n].tag = "h1" /\ shouldCheckElement(doc, n)
  /\ Len(WithMessage("Page missing H1 heading")) = 1

\* ---------------------------------------------------------------- missing H1
MissingH1 == WithMessage("Page missing H1 heading")

\* C21: the rule emits exactly one serious missing-H1 violation, anchored to
\* the first heading of the filtered sequence, iff that sequence is non-empty
\* and has no level-1 heading; otherwise it emits none.
C21_MissingH1 ==
  CheckDone =>
    IF FilteredHeadings # <<>> /\ FilteredH1s = {}
    THEN /\ Len(MissingH1) = 1
         /\ MissingH1[1].severity = "serious"
         /\ MissingH1[1].flagged = FilteredHeadings[1]
         /\ MissingH1[1].ruleId = "heading-structure"
    ELSE MissingH1 = <<>>

\* the rule ran on a document whose first heading is not in the filtered
\* sequence and whose filtered sequence has no level-1 heading: the violation
\* is anchored to a later heading
C21_Witness ==
  /\ CheckDone
  /\ Len(MissingH1) = 1
  /\ MissingH1[1].flagged > 1
  /\ doc[1].tag = "h1"

\* ---------------------------------------------------------------- effective background
\* colorContrast.check's call of getEffectiveBackgroundColor on a text element
MeasureBackground ==
  /\ background.element = 0
  /\ \E n \in Nodes(doc) :
       /\ doc[n].tag \in TextTags
       /\ background' = [element |-> n, color |-> getEffectiveBackgroundColor(doc, n)]
  /\ UNCHANGED <<doc, marks, now, pc, ruleIdx, violations, result, scans, failing,
                 throwLate, stamp, contrast, popupVars, spotlightVars>>

\* backgrounds: none, and colours with alpha 0.05, 0.1, 0.3, 0.5 and 1
BgKinds ==
  { <<"none", 0>>, <<"white", 5>>, <<"grey160", 10>>, <<"grey200", 30>>,
    <<"grey140", 50>>, <<"black", 100>> }

\* elementFromPoint at the paragraph's centre: the paragraph (0), the sibling
\* that covers it (4), the link inside it (5), or nothing (-1)
TopKinds == {0, 4, 5, -1}

\* html > body > (p > a, div): the div is a sibling positioned over the paragraph
BackgroundDocs ==
  { << [Base EXCEPT !.tag = "html", !.bg = h[1], !.bgAlpha = h[2]],
       [Base EXCEPT !.tag = "body", !.parent = 1, !.bg = b[1], !.bgAlpha = b[2]],
       [Base EXCEPT !.tag = "p", !.parent = 2, !.text = "Body", !.top = t,
                    !.bg = p[1], !.bgAlpha = p[2]],
       [Base EXCEPT !.tag = "div", !.parent = 2, !.bg = o[1], !.bgAlpha = o[2]],
       [Base EXCEPT !.tag = "a", !.parent = 3, !.href = "#", !.text = "more"] >> :
      h \in BgKinds, b \in BgKinds, p \in BgKinds, o \in BgKinds, t \in TopKinds }

InitBackground ==
  /\ \E d \in BackgroundDocs : InitOn(d)
  /\ now = 0
  /\ failing = "none"
  /\ throwLate = FALSE

SpecBackground == InitBackground /\ [][MeasureBackground]_vars

\* the topmost element at the centre of n is an overlay whose background is
\* not fully transparent and is opaque or has alpha >= 0.5
UsableOverlay(n) ==
  LET te == doc[n].top
  IN  /\ te \in Nodes(doc)
      /\ te # n
      /\ te \notin Descendants(doc, n)
      /\ doc[te].bgAlpha > 0
      /\ doc[te].bgAlpha >= 50

\* the elements from n up to the document root whose background has alpha >= 0.1
RootChain(n) == <<n>> \o Ancestors(doc, n)

Opaque10(n) == SelectSeq(RootChain(n), LAMBDA m : doc[m].bgAlpha >= 10)

\* C22: the effective background is the overlay's when the topmost element at
\* the centre is a usable overlay; otherwise that of the nearest element from
\* the text element up to the document root with alpha >= 0.1, and white when
\* there is none.
C22_EffectiveBackground ==
  background.element # 0 =>
    LET n == background.element
    IN  background.color =
          IF UsableOverlay(n) THEN doc[doc[n].top].bg
          ELSE IF Opaque10(n) # <<>> THEN doc[Opaque10(n)[1]].bg
          ELSE "white"

\* ---------------------------------------------------------------- applicability of descendants
\* what an element's attributes and stylesheet say about hiding it
Hidings ==
  { "plain", "presentation", "none", "ariaHidden", "displayNone", "hidden",
    "visible", "opacity0", "zeroWidth", "zeroHeight" }

\* the element at position i of a chain of nested elements (each the parent of
\* the next, the last one an image without alt), with the computed style and
\* box the browser gives it: nothing inside display:none has a box, visibility
\* is inherited unless the element sets it, opacity and size are not inherited
Rendered(chain, i) ==
  LET h == chain[i]
      boxless == \E j \in 1..i : chain[j] = "displayNone"
      set == {j \in 1..i : chain[j] \in {"hidden", "visible"}}
      nearest == CHOOSE j \in set : \A k \in set : k <= j
  IN  [Base EXCEPT
         !.tag = IF i = Len(chain) THEN "img" ELSE "div",
         !.parent = i - 1,
         !.role = IF h \in {"presentation", "none"} THEN h ELSE NoAttr,
         !.ariaHidden = IF h = "ariaHidden" THEN "true" ELSE NoAttr,
         !.display = IF h = "displayNone" THEN "none" ELSE "block",
         !.visibility = IF set # {} /\ chain[nearest] = "hidden" THEN "hidden"
                        ELSE "visible",
         !.opacity = IF h = "opacity0" THEN 0 ELSE 100,
         !.width = IF boxless \/ h = "zeroWidth" THEN 0 ELSE 100,
         !.height = IF boxless \/ h = "zeroHeight" THEN 0 ELSE 20]

NestedDocs ==
  { [i \in 1..Len(chain) |-> Rendered(chain, i)] :
      chain \in UNION {[1..m -> Hidings] : m \in 2..MaxDepth} }

InitNested == InitAlone(NestedDocs)

SpecNested == InitNested /\ [][CheckAlone("image-alt-text")]_vars

\* C23: an element the applicability filter excludes has no descendant that
\* the filter admits.
C23_FilterClosedUnderDescent ==
  CheckDone =>
    \A n \in Nodes(doc) :
      ~shouldCheckElement(doc, n) =>
        \A m \in Descendants(doc, n) : ~shouldCheckElement(doc, m)

\* ---------------------------------------------------------------- focus-order
\* elements with a tabindex (or none), shown or hidden in one way
FocusKinds ==
  { [Base EXCEPT !.tag = tg, !.text = "Go", !.tabindex = ti] :
      tg \in {"div", "button"}, ti \in {NoAttr, "-1", "0", "1"} }
    \cup { [Base EXCEPT !.tag = "button", !.text = "Go", !.tabindex = ti,
                        !.display = "none", !.width = 0, !.height = 0] :
             ti \in {"-1", "0", "1"} }
    \cup { [Base EXCEPT !.tag = "button", !.text = "Go", !.tabindex = ti,
                        !.visibility = "hidden"] : ti \in {"0", "1"} }
    \cup { [Base EXCEPT !.tag = "button", !.text = "Go", !.tabindex = ti,
                        !.opacity = 0] : ti \in {"0", "1"} }
    \cup { [Base EXCEPT !.tag = "button", !.text = "Go", !.tabindex = ti,
                        !.ariaHidden = "true"] : ti \in {"0", "1"} }

FocusDocs == NonEmptySeqsUpTo(FocusKinds, MaxNodes)

InitFocus == InitAlone(FocusDocs)

SpecFocus == InitFocus /\ [][CheckAlone("focus-order")]_vars

\* the element has a tabindex of 0 or more and its computed style hides it
FocusableHidden(n) ==
  /\ doc[n].tabindex \in {"0", "1"}
  /\ \/ doc[n].opacity = 0
     \/ doc[n].display = "none"
     \/ doc[n].visibility = "hidden"

\* C24: an element with a tabindex of 0 or more that is hidden by opacity 0,
\* display:none or visibility:hidden gets exactly one focus-order violation,
\* the moderate "focusable but hidden" one, though the filter excludes it.
C24_FocusableHiddenOnly ==
  CheckDone =>
    \A n \in Nodes(doc) :
      FocusableHidden(n) =>
        /\ Len(FlaggedAt(n)) = 1
        /\ FlaggedAt(n)[1].ruleId = "focus-order"
        /\ FlaggedAt(n)[1].severity = "moderate"
        /\ FlaggedAt(n)[1].message = "Focusable element is hidden"

\* the rule ran on a hidden element with tabindex 1 that the filter excludes
\* and on a shown element with tabindex 1: the first has the hidden violation
\* only, the second the positive-tabindex one
C24_Witness ==
  /\ CheckDone
  /\ \E n \in Nodes(doc) :
       /\ FocusableHidden(n)
       /\ doc[n].tabindex = "1"
       /\ doc[n].opacity = 0
       /\ ~shouldCheckElement(doc, n)
       /\ Len(FlaggedAt(n)) = 1
  /\ \E n \in Nodes(doc) :
       /\ ~FocusableHidden(n)
       /\ Len(FlaggedAt(n)) = 1
       /\ FlaggedAt(n)[1].severity = "serious"

\* ---------------------------------------------------------------- form-labels
\* the first element of the document: a label that references "email", a label
\* that wraps, an element labelled by another, or a plain one
FormWrappers ==
  { [Base EXCEPT !.tag = "label", !.for = "email", !.text = "Email"],
    [Base EXCEPT !.tag = "label", !.text = "Email"],
    [Base EXCEPT !.ariaLabelledby = "legend"],
    Base }

\* controls inside or after the first element, with or without id and
\* aria-label; a select, a control hidden from assistive technology, and an
\* input of type hidden
ControlKinds ==
  { [Base EXCEPT !.tag = "input", !.type = "text", !.parent = pr, !.id = i,
                 !.ariaLabel = al] :
      pr \in {0, 1}, i \in {NoAttr, "", "email"}, al \in {NoAttr, "", "Email"} }
    \cup { [Base EXCEPT !.tag = "select", !.id = "country"],
           [Base EXCEPT !.tag = "input", !.type = "text", !.ariaHidden = "true"],
           [Base EXCEPT !.tag = "input", !.type = "hidden", !.id = "token"] }

FormDocs ==
  { <<w>> \o controls :
      w \in FormWrappers, controls \in NonEmptySeqsUpTo(ControlKinds, MaxFields) }

InitFormLabels == InitAlone(FormDocs)

SpecFormLabels == InitFormLabels /\ [][CheckAlone("form-labels")]_vars

\* input (not hidden, submit, button, reset or image), textarea or select
IsControl(n) ==
  \/ doc[n].tag \in {"textarea", "select"}
  \/ doc[n].tag = "input" /\ doc[n].type \notin {"hidden", "submit", "button", "reset", "image"}

\* a label references the control's identifier, or the control is nested in a label
Labelled(n) ==
  \/ \E m \in Nodes(doc) :
        doc[m].tag = "label" /\ doc[n].id \notin {NoAttr, ""} /\ doc[m].for = doc[n].id
  \/ \E m \in Nodes(doc) : doc[m].tag = "label" /\ n \in Descendants(doc, m)

\* C25: an applicable form control with a label gets no form-labels violation;
\* without a label it gets exactly one, moderate when hasAccessibleName holds
\* and critical when it does not.
C25_FormLabelSeverity ==
  CheckDone =>
    \A n \in Nodes(doc) :
      (IsControl(n) /\ shouldCheckElement(doc, n)) =>
        IF Labelled(n) THEN FlaggedAt(n) = <<>>
        ELSE /\ Len(FlaggedAt(n)) = 1
             /\ FlaggedAt(n)[1].ruleId = "form-labels"
             /\ FlaggedAt(n)[1].severity
                  = IF hasAccessibleName(doc, n) THEN "moderate" ELSE "critical"

\* the rule ran on a control nested in a label and on a control without label
\* or name: no violation for the first, a critical one for the second
C25_Witness ==
  /\ CheckDone
  /\ \E n \in Nodes(doc) :
       /\ IsControl(n) /\ shouldCheckElement(doc, n)
       /\ doc[n].parent = 1 /\ doc[1].tag = "label" /\ doc[n].id = NoAttr
       /\ FlaggedAt(n) = <<>>
  /\ \E n \in Nodes(doc) :
       /\ IsControl(n) /\ ~Labelled(n)
       /\ Len(FlaggedAt(n)) = 1
       /\ FlaggedAt(n)[1].severity = "critical"

\* ---------------------------------------------------------------- link-purpose
LinkTexts == {"", " ", "Click Here", " here ", "MORE", "Learn more", "Home", "this"}

\* links inside the first element, with each text, with or without an
\* aria-label; a link with an empty aria-label, a link hidden from assistive
\* technology, an anchor without href
LinkKinds ==
  { [Base EXCEPT !.tag = "a", !.href = "/page", !.text = tx, !.ariaLabel = al, !.parent = 1] :
      tx \in LinkTexts, al \in {NoAttr, "Products"} }
    \cup { [Base EXCEPT !.tag = "a", !.href = "/page", !.text = "", !.ariaLabel = "",
                        !.parent = 1],
           [Base EXCEPT !.tag = "a", !.href = "/page", !.text = "here", !.ariaHidden = "true"],
           [Base EXCEPT !.tag = "a", !.text = ""] }

\* the first element of the document: a paragraph, or an element labelled by another
LinkWrappers == { [Base EXCEPT !.tag = "p"], [Base EXCEPT !.ariaLabelledby = "nav-title"] }

LinkDocs ==
  { <<w>> \o links : w \in LinkWrappers, links \in NonEmptySeqsUpTo(LinkKinds, MaxNodes) }

InitLinks == InitAlone(LinkDocs)

SpecLinks == InitLinks /\ [][CheckAlone("link-purpose")]_vars

\* the trimmed, lower-cased text of the link
LinkText(n) == Lower(Trim(TextContent(doc, n)))

KeyboardKinds ==
  { [Base EXCEPT !.onclick = oc, !.cursor = cu, !.tabindex = ti] :
      oc \in BOOLEAN, cu \in {"auto", "pointer"}, ti \in {NoAttr, "-1", "0"} }
    \cup { [Base EXCEPT !.tag = "span", !.cursor = "pointer"],
           [Base EXCEPT !.cursor = "pointer", !.ariaHidden = "true"],
           [Base EXCEPT !.onclick = TRUE, !.cursor = "pointer", !.ariaHidden = "true"],
           [Base EXCEPT !.tag = "button", !.onclick = TRUE, !.cursor = "pointer"] }

KeyboardDocs == NonEmptySeqsUpTo(KeyboardKinds, MaxNodes)

\* the page is scanned with the clock at its last value (the timestamps play
\* no part in the rule)
InitKeyboard ==
  /\ \E d \in KeyboardDocs : InitOn(d)
  /\ now = MaxClock
  /\ failing = "none"
  /\ throwLate = FALSE

SpecKeyboard == InitKeyboard /\ [][Next]_vars

\* the keyboard-accessible violations of the last scan for n, of one pass
\* (the passes differ in what the description says was detected)
KeyboardViolations(n, pass) ==
  SelectSeq(result.violations,
            LAMBDA v : v.ruleId = "keyboard-accessible" /\ v.flagged = n
                       /\ v.description = pass)

PassA == "click handlers"

PassB == "cursor: pointer"

\* div or span with cursor pointer and no non-negative tabindex
PassBCondition(n) ==
  /\ doc[n].tag \in {"div", "span"}
  /\ doc[n].cursor = "pointer"
  /\ doc[n].tabindex \notin {"0", "1", "2", "3"}

AtMostOnePerNode ==
  \A n \in Nodes(doc) :
    /\ Len(KeyboardViolations(n, PassA)) + Len(KeyboardViolations(n, PassB)) <= 1
    /\ KeyboardViolations(n, PassA) # <<>> => KeyboardViolations(n, PassB) = <<>>

\* C27 as stated: after a scan no node has more than one keyboard-accessible
\* violation, and every div or span with cursor pointer and no non-negative
\* tabindex that pass (a) did not flag is flagged by pass (b).
C27_AsStated ==
  ScanDone =>
    /\ AtMostOnePerNode
    /\ \A n \in Nodes(doc) :
         (PassBCondition(n) /\ KeyboardViolations(n, PassA) = <<>>)
           => Len(KeyboardViolations(n, PassB)) = 1

\* C27: after a scan no node has more than one keyboard-accessible violation,
\* and every applicable div or span with cursor pointer and no non-negative
\* tabindex that pass (a) did not flag is flagged by pass (b).
C27_OnePerNodeAndPassB ==
  ScanDone =>
    /\ AtMostOnePerNode
    /\ \A n \in Nodes(doc) :
         (shouldCheckElement(doc, n) /\ PassBCondition(n)
            /\ KeyboardViolations(n, PassA) = <<>>)
           => Len(KeyboardViolations(n, PassB)) = 1

\* a second scan has returned on a document with an element that has a click
\* handler and a pointer cursor, flagged by pass (a) only, and an element with
\* a pointer cursor alone, flagged by pass (b)
C27_Witness ==
  /\ ScanDone
  /\ scans = 2
  /\ \E n \in Nodes(doc) :
       /\ PassBCondition(n) /\ doc[n].onclick
       /\ Len(KeyboardViolations(n, PassA)) = 1
       /\ KeyboardViolations(n, PassB) = <<>>
  /\ \E n \in Nodes(doc) :
       /\ PassBCondition(n) /\ ~doc[n].onclick
       /\ Len(KeyboardViolations(n, PassB)) = 1

\* ---------------------------------------------------------------- repeated scans
\* what a violation says, without its id, locator and description
Finding(v) ==
  [ruleId |-> v.ruleId, severity |-> v.severity, message |-> v.message, flagged |-> v.flagged]

SameFindings(vs, ws) ==
  /\ Len(vs) = Len(ws)
  /\ \A i \in 1..Len(vs) : Finding(vs[i]) = Finding(ws[i])

\* C28: a scan that follows another scan of the same document returns a
\* violation list of the same length with, at each position, the same rule,
\* severity, message and flagged node as the list the earlier scan returned.
C28_ScanRepeatable ==
  [][(pc = "scanning" /\ pc' = "idle" /\ scans > 1)
       => SameFindings(result.violations, result'.violations)]_vars

\* the second scan has returned, at a later clock value than the first wrote
\* its markers, and it holds a violation of the cursor-pointer pass, which
\* skips elements that carry a marker
C28_Witness ==
  /\ ScanDone
  /\ scans = 2
  /\ now > 0
  /\ \E i \in 1..Len(result.violations) :
       /\ result.violations[i].ruleId = "keyboard-accessible"
       /\ result.violations[i].description = "cursor: pointer"
  /\ \E n \in Nodes(doc) : stamp[n] = 2

\* ---------------------------------------------------------------- spotlight switched off
\* C29: once an inspect request has turned the spotlight off, the document has
\* no overlay and no bounding box until the next inspect request is received,
\* whatever callbacks of earlier requests run in between.
C29_OffStaysOff ==
  switchedOff => (~overlay /\ boundingBox = -1 /\ ~spotlightActive)

\* ---------------------------------------------------------------- violation ids
\* a fieldset (1) with a legend place (2), followed by two radio buttons of one
\* name and two or three checkboxes of one name, each group inside the fieldset
\* or in the body
GroupDocs ==
  { << [Base EXCEPT !.tag = "fieldset"], LegendSlot(k, 1) >>
       \o [i \in 1..2 |-> [Base EXCEPT !.tag = "input", !.type = "radio",
                                       !.name = rn, !.parent = rp]]
       \o [i \in 1..boxes |-> [Base EXCEPT !.tag = "input", !.type = "checkbox",
                                           !.name = cn, !.parent = cp]] :
      k \in SlotKinds, rn \in {"size", "checkbox-size"}, rp \in {0, 1},
      cn \in {"size", "colour"}, cp \in {0, 1}, boxes \in {2, 3} }

InitGroups == InitAlone(GroupDocs)

SpecGroups == InitGroups /\ [][CheckAlone("fieldset-legend")]_vars

====
